---- MODULE Spec2Model ----
(***************************************************************************)
(* Model of the gts-rs Pokemon binary codec (src/src/pkm_utils/pokemon.rs): *)
(* the Pokemon value and its setters, serialize / deserialize, the block    *)
(* shuffle and the LCG XOR cipher; of the GTS envelope                      *)
(* (src/src/pkm_utils/gts.rs): deposits, the Gen 4 stream cipher and        *)
(* receptions; and of the HTTP layer (src/src/http_server.rs): post.asp     *)
(* with save, result.asp with load, and the framing of responses; and of    *)
(* the DNS proxy (src/src/dns_server.rs): the receive loop, the exchange    *)
(* with the upstream resolver and the rewriting of its responses.           *)
(*                                                                          *)
(* Each part has its own specification over the same variables; the         *)
(* comment above a specification says what the variables hold in it.        *)
(*                                                                          *)
(* Conventions.  A byte buffer is a sequence of bytes; the byte the source  *)
(* writes as bytes[off] is At(b, off).  A u32 is kept as two 16-bit limbs   *)
(* [hi, lo] so that every intermediate value stays inside the integers the  *)
(* model checker can hold; u32 arithmetic is done limb-wise, modulo 2^32.   *)
(* Hexadecimal offsets are written \Hxx as in the source.                   *)
(***************************************************************************)
EXTENDS Integers, Sequences, FiniteSets, TLC

VARIABLES
    pkm,          \* the Pokemon value at hand (a record), or NoPkm
    bytes,        \* the byte buffer at hand (a serialized or encrypted record)
    op,           \* the operation that produced this state
    arg,          \* the argument of that operation
    result,       \* its outcome: "ok", "panic", "ub", or the value a pure function returned
    saved,        \* the value the operation started from (kept for comparison)
    debug_build,  \* TRUE: cargo's dev profile (debug_assertions, overflow checks); FALSE: release
    steps,        \* number of operations applied so far
    files,        \* the file system: a function from the paths that exist to their contents
    clock         \* the local time, in seconds after 2012-03-04 05:06:00

vars == <<pkm, bytes, op, arg, result, saved, debug_build, steps, files, clock>>

NoPkm == [none |-> TRUE]
NoArg == <<>>

\* the codec, the cipher and the setters touch neither the disk nor the clock
NoFiles == <<>>
env == <<files, clock>>
InitEnv == files = NoFiles /\ clock = 0

(***************************************************************************)
(* Bounds of the model.                                                     *)
(***************************************************************************)
MaxSteps == 4

MaxSetterCalls == 3

(***************************************************************************)
(* Fixed-width integers.                                                    *)
(***************************************************************************)
U16 == 65536
U8 == 256

U32(hi, lo) == [hi |-> hi, lo |-> lo]

\* u32 >> n, for 0 < n < 16
U32Shr(x, n) ==
    LET p == 2 ^ n
        q == 2 ^ (16 - n)
    IN  U32(x.hi \div p, ((x.hi % p) * q) + (x.lo \div p))

\* u32 % 25 (65536 = 25 * 2621 + 11)
U32Mod25(x) == (((x.hi % 25) * 11) + (x.lo % 25)) % 25

\* u32::wrapping_sub(x, n), for 0 <= n < 2^16
U32WrappingSub(x, n) ==
    IF x.lo >= n THEN U32(x.hi, x.lo - n)
    ELSE U32((x.hi + U16 - 1) % U16, x.lo + U16 - n)

\* bitwise operations on n-bit values
RECURSIVE BitXor(_, _, _)
BitXor(a, b, n) ==
    IF n = 0 THEN 0
    ELSE (((a % 2) + (b % 2)) % 2) + (2 * BitXor(a \div 2, b \div 2, n - 1))

RECURSIVE BitAnd(_, _, _)
BitAnd(a, b, n) ==
    IF n = 0 THEN 0
    ELSE ((a % 2) * (b % 2)) + (2 * BitAnd(a \div 2, b \div 2, n - 1))

RECURSIVE BitOr(_, _, _)
BitOr(a, b, n) ==
    IF n = 0 THEN 0
    ELSE (IF (a % 2) + (b % 2) > 0 THEN 1 ELSE 0) + (2 * BitOr(a \div 2, b \div 2, n - 1))

(***************************************************************************)
(* Byte buffers.                                                            *)
(***************************************************************************)
At(b, off) == b[off + 1]

\* b[from..to] of the source (to exclusive)
Slice(b, from, to) == SubSeq(b, from + 1, to)

LE16(v) == <<v % 256, v \div 256>>

LE32(x) == LE16(x.lo) \o LE16(x.hi)

\* u16::from_le_bytes([b[off], b[off + 1]])
ReadU16(b, off) == At(b, off) + (256 * At(b, off + 1))

\* u32::from_le_bytes(b[off..off + 4])
ReadU32(b, off) == U32(ReadU16(b, off + 2), ReadU16(b, off))

Zeros(n) == [i \in 1..n |-> 0]

\* Vec::resize(n, 0)
Resize(s, n) == IF Len(s) >= n THEN SubSeq(s, 1, n) ELSE s \o Zeros(n - Len(s))

(***************************************************************************)
(* Block shuffle order (pokemon.rs, determine_shuffle_block_order).         *)
(***************************************************************************)
BOXED_PKM_LEN == 136
GEN4_PKM_LEN == 236
GEN5_PKM_LEN == 220
BLOCK_LEN == 32

\* the table with entries 9 and 13 exchanged
possible_orders_transposed ==
    << <<0, 1, 2, 3>>, <<0, 1, 3, 2>>, <<0, 2, 1, 3>>, <<0, 2, 3, 1>>,
       <<0, 3, 1, 2>>, <<0, 3, 2, 1>>, <<1, 0, 2, 3>>, <<1, 0, 3, 2>>,
       <<1, 2, 0, 3>>, <<2, 0, 3, 1>>, <<1, 3, 0, 2>>, <<1, 3, 2, 0>>,
       <<2, 0, 1, 3>>, <<1, 2, 3, 0>>, <<2, 1, 0, 3>>, <<2, 1, 3, 0>>,
       <<2, 3, 0, 1>>, <<2, 3, 1, 0>>, <<3, 0, 1, 2>>, <<3, 0, 2, 1>>,
       <<3, 1, 0, 2>>, <<3, 1, 2, 0>>, <<3, 2, 0, 1>>, <<3, 2, 1, 0>> >>

possible_orders ==
    << <<0, 1, 2, 3>>, <<0, 1, 3, 2>>, <<0, 2, 1, 3>>, <<0, 2, 3, 1>>,
       <<0, 3, 1, 2>>, <<0, 3, 2, 1>>, <<1, 0, 2, 3>>, <<1, 0, 3, 2>>,
       <<1, 2, 0, 3>>, <<1, 2, 3, 0>>, <<1, 3, 0, 2>>, <<1, 3, 2, 0>>,
       <<2, 0, 1, 3>>, <<2, 0, 3, 1>>, <<2, 1, 0, 3>>, <<2, 1, 3, 0>>,
       <<2, 3, 0, 1>>, <<2, 3, 1, 0>>, <<3, 0, 1, 2>>, <<3, 0, 2, 1>>,
       <<3, 1, 0, 2>>, <<3, 1, 2, 0>>, <<3, 2, 0, 1>>, <<3, 2, 1, 0>> >>

\* let order = ((pid >> 13) & 0x1F) % 24;
ShuffleIndexShift13(pid) == (U32Shr(pid, 13).lo % 32) % 24

ShuffleIndexShift12(pid) == (U32Shr(pid, 12).lo % 32) % 24

shuffle_index(pid) == ShuffleIndexShift13(pid)

determine_shuffle_block_order(pid) == possible_orders[shuffle_index(pid) + 1]

(***************************************************************************)
(* Block shuffle (pokemon.rs, shuffle_blocks / unshuffle_blocks).           *)
(***************************************************************************)
\* block k (from 0) of the 0x80-byte region
Block(region, k) == SubSeq(region, (k * BLOCK_LEN) + 1, (k + 1) * BLOCK_LEN)

\* tmp[i * 0x20..] = shuffle_data[block_id * 0x20..] for (i, block_id) in order
ShuffleRegion(region, order) ==
    Block(region, order[1]) \o Block(region, order[2])
        \o Block(region, order[3]) \o Block(region, order[4])

\* tmp[block_id * 0x20..] = shuffle_data[i * 0x20..] for (i, block_id) in order
UnshuffleRegion(region, order) ==
    LET pos(k) == CHOOSE i \in 1..4 : order[i] = k
    IN  Block(region, pos(0) - 1) \o Block(region, pos(1) - 1)
            \o Block(region, pos(2) - 1) \o Block(region, pos(3) - 1)

shuffle_blocks(data, pid) ==
    Slice(data, 0, \H08)
        \o ShuffleRegion(Slice(data, \H08, BOXED_PKM_LEN), determine_shuffle_block_order(pid))
        \o Slice(data, BOXED_PKM_LEN, Len(data))

unshuffle_blocks(data, pid) ==
    Slice(data, 0, \H08)
        \o UnshuffleRegion(Slice(data, \H08, BOXED_PKM_LEN), determine_shuffle_block_order(pid))
        \o Slice(data, BOXED_PKM_LEN, Len(data))

(***************************************************************************)
(* LCG XOR cipher (pokemon.rs, encryption_step / crypt_data).               *)
(***************************************************************************)
LCG_MUL_HI == 16838     \* 0x41C6
LCG_MUL_LO == 20077     \* 0x4E6D
LCG_ADD == 24691        \* 0x6073

\* state.wrapping_mul(0x41C64E6D)
LcgWrappingMul(state) ==
    LET low == state.lo * LCG_MUL_LO
    IN  U32(((low \div U16) + ((state.hi * LCG_MUL_LO) % U16)
                + ((state.lo * LCG_MUL_HI) % U16)) % U16,
            low % U16)

\* whether `w + 0x6073` exceeds u32::MAX
LcgAddOverflows(w) == w.hi = U16 - 1 /\ w.lo + LCG_ADD >= U16

\* (w + 0x6073) & 0xFFFFFFFF, the sum taken modulo 2^32
LcgAdd(w) ==
    IF w.lo + LCG_ADD >= U16
    THEN U32((w.hi + 1) % U16, (w.lo + LCG_ADD) % U16)
    ELSE U32(w.hi, w.lo + LCG_ADD)

\* the u16 words of a byte slice: chunks(2).map(u16::from_le_bytes)
WordsOf(data) == [i \in 1..(Len(data) \div 2) |-> data[(2 * i) - 1] + (256 * data[2 * i])]

\* iter().flat_map(|&x| x.to_le_bytes())
BytesOf(words) ==
    [i \in 1..(2 * Len(words)) |->
        IF i % 2 = 1 THEN words[(i + 1) \div 2] % 256 ELSE words[i \div 2] \div 256]

\* One pass of the loop body of encryption_step, on word i with the state
\* before it.  The addition is a checked `+`: with overflow checks (the dev
\* profile) it panics when the sum exceeds u32::MAX, without them it wraps.
EncryptWord(words, i, state, checked) ==
    LET w == LcgWrappingMul(state)
        next == LcgAdd(w)
    IN  IF checked /\ LcgAddOverflows(w)
        THEN [panic |-> TRUE, words |-> <<>>, state |-> state]
        ELSE [panic |-> FALSE, words |-> <<BitXor(words[i], next.hi, 16)>>, state |-> next]

\* The loop of encryption_step over words from..to, in ascending order (the
\* range is halved so that the evaluation stays shallow).
RECURSIVE EncryptRange(_, _, _, _, _)
EncryptRange(words, from, to, state, checked) ==
    IF from > to THEN [panic |-> FALSE, words |-> <<>>, state |-> state]
    ELSE IF from = to THEN EncryptWord(words, from, state, checked)
    ELSE LET mid == (from + to) \div 2
             left == EncryptRange(words, from, mid, state, checked)
         IN  IF left.panic THEN left
             ELSE LET right == EncryptRange(words, mid + 1, to, left.state, checked)
                  IN  [panic |-> right.panic,
                       words |-> left.words \o right.words,
                       state |-> right.state]

\* encryption_step(data, seed): [panic, data]
encryption_step(data, seed, checked) ==
    LET words == WordsOf(data)
        r == EncryptRange(words, 1, Len(words), seed, checked)
    IN  [panic |-> r.panic, data |-> IF r.panic THEN data ELSE BytesOf(r.words)]

\* crypt_data(pokemon_data, pid, checksum): [panic, data]
crypt_data(data, pid, checksum, checked) ==
    LET head == encryption_step(Slice(data, \H08, BOXED_PKM_LEN), U32(0, checksum), checked)
        tail == IF Len(data) > BOXED_PKM_LEN
                THEN encryption_step(Slice(data, BOXED_PKM_LEN, Len(data)), pid, checked)
                ELSE [panic |-> FALSE, data |-> <<>>]
    IN  [panic |-> head.panic \/ tail.panic,
         data |-> Slice(data, 0, \H08) \o head.data \o tail.data]

\* let checksum = (data[0x06] as u16) + ((data[0x07] as u16) << 8);
ChecksumOf(data) == At(data, \H06) + (At(data, \H07) * 256)

\* to_encrypted_data(decrypted_data): [panic, data]
to_encrypted_data(data, checked) ==
    IF Len(data) < BOXED_PKM_LEN THEN [panic |-> TRUE, data |-> data]
    ELSE LET pid == ReadU32(data, 0)
         IN  crypt_data(shuffle_blocks(data, pid), pid, ChecksumOf(data), checked)

\* to_decrypted_data(encrypted_data): [panic, data]
to_decrypted_data(data, checked) ==
    IF Len(data) < BOXED_PKM_LEN THEN [panic |-> TRUE, data |-> data]
    ELSE LET pid == ReadU32(data, 0)
             r == crypt_data(data, pid, ChecksumOf(data), checked)
         IN  [panic |-> r.panic,
              data |-> IF r.panic THEN data ELSE unshuffle_blocks(r.data, pid)]

(***************************************************************************)
(* Specification of the cipher on raw buffers.                              *)
(***************************************************************************)
\* buffer contents: byte i of pattern k
PatternByte(k, i) ==
    CASE k = 0 -> 0
      [] k = 1 -> ((i * 7) + 3) % 256
      [] OTHER -> 255 - ((i * 13) % 256)

CipherPids == { U32(0, 0), U32(\HDEAD, \HBEEF), U32(1, \HA000), U32(\HFFFF, \HFFFF) }

\* 0x3805 makes the eighth LCG step of the block region exceed u32::MAX
CipherChecksums == { 0, \H1234, \H3805, \HFFFF }

CipherBuffer(len, k, pid, checksum) ==
    LE32(pid) \o <<PatternByte(k, 4), PatternByte(k, 5)>> \o LE16(checksum)
        \o [i \in 1..(len - 8) |-> PatternByte(k, i + 7)]

CipherBuffers ==
    { CipherBuffer(len, k, pid, c) :
        len \in {GEN4_PKM_LEN, GEN5_PKM_LEN}, k \in 0..2, pid \in CipherPids,
        c \in CipherChecksums }

InitCipher ==
    /\ pkm = NoPkm
    /\ bytes \in CipherBuffers
    /\ op = "init"
    /\ arg = "none"
    /\ result = "ok"
    /\ saved = bytes
    /\ debug_build \in BOOLEAN
    /\ steps = 0
    /\ InitEnv

\* one call on the buffer at hand; a panic ends the run
CipherCall(name, r) ==
    /\ result = "ok"
    /\ steps < 2
    /\ op' = name
    /\ arg' = op
    /\ result' = IF r.panic THEN "panic" ELSE "ok"
    /\ bytes' = r.data
    /\ steps' = steps + 1
    /\ UNCHANGED <<pkm, saved, debug_build>>
    /\ UNCHANGED env

ToEncryptedData == CipherCall("to_encrypted_data", to_encrypted_data(bytes, debug_build))

ToDecryptedData == CipherCall("to_decrypted_data", to_decrypted_data(bytes, debug_build))

NextCipher == ToEncryptedData \/ ToDecryptedData

SpecCipher == InitCipher /\ [][NextCipher]_vars

(***************************************************************************)
(* C2: the cipher round trip.                                               *)
(***************************************************************************)
\* C2: for every 236- or 220-byte buffer B, to_decrypted_data(to_encrypted_data(B))
\* = B and to_encrypted_data(to_decrypted_data(B)) = B: each call returns, and
\* the second one gives back B.
C2_CipherInvolution ==
    op \in {"to_encrypted_data", "to_decrypted_data"} =>
        /\ result = "ok"
        /\ (arg \in {"to_encrypted_data", "to_decrypted_data"} /\ arg # op => bytes = saved)

\* C2, the part the code keeps: the round trip gives back B whenever neither
\* call panics
C2_RoundTripUnlessPanic ==
    (result = "ok" /\ arg \in {"to_encrypted_data", "to_decrypted_data"} /\ arg # op)
        => bytes = saved

\* C2: the first ciphered word of a zero block region under checksum 0x1234:
\* (0x1234 * 0x41C64E6D + 0x6073) >> 16 = 0x4DCB
C2_KnownVector ==
    (op = "to_encrypted_data" /\ arg = "init" /\ result = "ok"
        /\ ChecksumOf(saved) = \H1234 /\ At(saved, \H09) = 0 /\ ReadU32(saved, 0) = U32(0, 0))
        => ReadU16(bytes, \H08) = \H4DCB

\* C2: a debug build has been given a buffer with checksum 0x3805, and
\* to_encrypted_data has panicked on the overflowing addition
C2_DebugBuildPanics ==
    /\ op = "to_encrypted_data"
    /\ arg = "init"
    /\ debug_build
    /\ ChecksumOf(saved) = \H3805
    /\ result = "panic"

(***************************************************************************)
(* Specification of the shuffle order as a pure function of the PID.        *)
(***************************************************************************)
\* PIDs whose bits 13..17 take every value, with other bits set or clear
ShufflePids ==
    { U32(hi, lo) : hi \in {0, 1, 2, 3, \HFFFC, \HDEAD, \HFFFF},
                    lo \in { (k * 8192) + r : k \in 0..7, r \in {0, 1, \H1FFF} } }

InitShuffle ==
    /\ pkm = NoPkm
    /\ bytes = <<>>
    /\ op = "init"
    /\ arg \in ShufflePids
    /\ result = "none"
    /\ saved = NoArg
    /\ debug_build \in BOOLEAN
    /\ steps = 0
    /\ InitEnv

DetermineShuffleBlockOrder ==
    /\ op = "init"
    /\ op' = "determine_shuffle_block_order"
    /\ result' = determine_shuffle_block_order(arg)
    /\ steps' = steps + 1
    /\ UNCHANGED <<pkm, bytes, arg, saved, debug_build>>
    /\ UNCHANGED env

NextShuffle == DetermineShuffleBlockOrder

SpecShuffle == InitShuffle /\ [][NextShuffle]_vars

(***************************************************************************)
(* C9, C10: the shuffle order.                                              *)
(***************************************************************************)
\* the k-th (from 0) ordering of the elements of s (an ascending sequence) in
\* lexicographic order, by the factorial number system
RECURSIVE Factorial(_)
Factorial(n) == IF n = 0 THEN 1 ELSE n * Factorial(n - 1)

RemoveAt(s, i) == SubSeq(s, 1, i - 1) \o SubSeq(s, i + 1, Len(s))

RECURSIVE NthLexOrdering(_, _)
NthLexOrdering(s, k) ==
    IF Len(s) = 0 THEN <<>>
    ELSE LET f == Factorial(Len(s) - 1)
             i == (k \div f) + 1
         IN  <<s[i]>> \o NthLexOrdering(RemoveAt(s, i), k % f)

IsPermutationOf0123(s) ==
    /\ Len(s) = 4
    /\ { s[i] : i \in 1..4 } = {0, 1, 2, 3}

\* bits 13..17 of a u32, read off its limbs
Bits13To17(pid) == ((pid.hi % 4) * 8) + (pid.lo \div 8192)

\* C9: for every pid, determine_shuffle_block_order(pid) is entry
\* ((pid >> 13) & 0x1F) mod 24 of the lexicographically ordered list of the 24
\* orderings of (0,1,2,3), and so a permutation of (0,1,2,3).
C9_ShuffleOrderIsLexPermutation ==
    op = "determine_shuffle_block_order" =>
        /\ result = NthLexOrdering(<<0, 1, 2, 3>>, Bits13To17(arg) % 24)
        /\ IsPermutationOf0123(result)

\* a pid whose index wraps around 24 (bits 13..17 = 31, entry 7) has been ordered
C9_Witness ==
    /\ op = "determine_shuffle_block_order"
    /\ Bits13To17(arg) = 31
    /\ result = <<1, 0, 3, 2>>

\* C10 as stated: pid 0 gives (0,1,2,3) and pid 0x0001A000 gives [1,2,3,0]
C10_Original ==
    op = "determine_shuffle_block_order" =>
        /\ (arg = U32(0, 0) => result = <<0, 1, 2, 3>>)
        /\ (arg = U32(1, \HA000) => result = <<1, 2, 3, 0>>)

\* C10 amended: pid 0 gives (0,1,2,3); pid 0x0001A000 selects index 13, whose
\* entry in the lexicographic table is [2,0,3,1].
C10_ShuffleVectors ==
    op = "determine_shuffle_block_order" =>
        /\ (arg = U32(0, 0) => result = <<0, 1, 2, 3>>)
        /\ (arg = U32(1, \HA000) =>
                /\ shuffle_index(arg) = 13
                /\ result = <<2, 0, 3, 1>>)

C10_Witness ==
    /\ op = "determine_shuffle_block_order"
    /\ arg = U32(1, \HA000)
    /\ result = <<2, 0, 3, 1>>

(***************************************************************************)
(* Static data tables (data_maps.rs).  The JSON resources are not part of   *)
(* the sources; the tables below follow the description of section 4.1.     *)
(***************************************************************************)
SPECIES_COUNT == 650        \* species ids 0..649
ITEMS_GEN4_COUNT == 537
ITEMS_GEN5_COUNT == 639
ABILITIES_COUNT == 165
MOVES_COUNT == 560
NATURES_COUNT == 25
LAST_GEN4_SPECIES == 493
MAX_LEVEL == 100

\* base stats rows [growth-class, HP, Atk, Def, SpA, SpD, Spe] of the species the
\* model draws from
BASE_STATS(id) ==
    CASE id = 1   -> <<3, 45, 49, 49, 65, 65, 45>>      \* Bulbasaur
      [] id = 25  -> <<0, 35, 55, 40, 50, 50, 90>>      \* Pikachu
      [] id = 35  -> <<4, 70, 45, 48, 60, 65, 35>>      \* Clefairy
      [] id = 129 -> <<5, 20, 10, 55, 15, 20, 80>>      \* Magikarp
      [] id = 285 -> <<2, 60, 40, 60, 40, 60, 35>>      \* Shroomish
      [] id = 290 -> <<1, 31, 45, 90, 30, 30, 40>>      \* Nincada
      [] id = 494 -> <<5, 100, 100, 100, 100, 100, 100>> \* Victini

ModelSpecies == {1, 25, 35, 129, 285, 290, 494}

Cube(n) == n * n * n

\* experience threshold of level n in growth class c (0 medium fast, 1 erratic,
\* 2 fluctuating, 3 medium slow, 4 fast, 5 slow); rows 0 and 1 are all zero
LEVEL_CURVES(n, c) ==
    IF n <= 1 THEN 0
    ELSE CASE c = 0 -> Cube(n)
           [] c = 1 -> IF n < 50 THEN (Cube(n) * (100 - n)) \div 50
                       ELSE IF n < 68 THEN (Cube(n) * (150 - n)) \div 100
                       ELSE IF n < 98 THEN (Cube(n) * ((1911 - (10 * n)) \div 3)) \div 500
                       ELSE (Cube(n) * (160 - n)) \div 100
           [] c = 2 -> IF n < 15 THEN (Cube(n) * (((n + 1) \div 3) + 24)) \div 50
                       ELSE IF n < 36 THEN (Cube(n) * (n + 14)) \div 50
                       ELSE (Cube(n) * ((n \div 2) + 32)) \div 50
           [] c = 3 -> (((6 * Cube(n)) \div 5) + (100 * n)) - ((15 * n * n) + 140)
           [] c = 4 -> (4 * Cube(n)) \div 5
           [] c = 5 -> (5 * Cube(n)) \div 4

\* nature modifiers: row id holds 1.1 at position id / 5 and 0.9 at position
\* id % 5 of (Atk, Def, Spe, SpA, SpD); it is all 1.0 when the two coincide
NatureIncreasedIndex(id) == IF id \div 5 = id % 5 THEN id \div 6 ELSE id \div 5
NatureDecreasedIndex(id) == IF id \div 5 = id % 5 THEN id \div 6 ELSE id % 5

\* Stat::try_from_iv_index
StatOfIvIndex(i) ==
    CASE i = 0 -> "atk" [] i = 1 -> "def" [] i = 2 -> "spe" [] i = 3 -> "spa" [] i = 4 -> "spd"

\* the character map, on the characters the model draws from: a character is
\* its Unicode scalar value; -1 is "not in the map"
CharmapByRight(c) ==
    IF c \in 65..90 THEN \H012B + (c - 65)          \* A..Z
    ELSE IF c \in 97..122 THEN \H0145 + (c - 97)    \* a..z
    ELSE IF c \in 48..57 THEN \H0121 + (c - 48)     \* 0..9
    ELSE IF c = 33 THEN \H01AB                      \* !
    ELSE IF c = 201 THEN \H0168                     \* E with acute accent
    ELSE -1

CharmapByLeft(code) ==
    IF code \in \H012B..\H0144 THEN 65 + (code - \H012B)
    ELSE IF code \in \H0145..\H015E THEN 97 + (code - \H0145)
    ELSE IF code \in \H0121..\H012A THEN 48 + (code - \H0121)
    ELSE IF code = \H01AB THEN 33
    ELSE IF code = \H0168 THEN 201
    ELSE -1

(***************************************************************************)
(* Enumerations (internal_types.rs): the valid discriminants.               *)
(***************************************************************************)
GenderIds == 0..2
LanguageIds == (1..5) \cup {7, 8}
GameIds == (1..5) \cup {7, 8} \cup (10..12) \cup {15} \cup (20..23)
PokeballIds == 1..25
POKE_BALL == 4
FIRST_HGSS_BALL == 17
Gen4LocationIds == (0..233) \cup (2000..2014) \cup (3000..3064)
Gen5LocationIds == (0..152) \cup (30001..30123) \cup (60001..60003)
DP_LAST_LOCATION == 110
GEN4_FARAWAY_PLACE == 3001

Gen4Loc(id) == [gen |-> 4, id |-> id]
Gen5Loc(id) == [gen |-> 5, id |-> id]

NoDate == <<>>

IsLeapYear(y) == (y % 4 = 0 /\ y % 100 # 0) \/ y % 400 = 0

DaysInMonth(y, m) ==
    IF m = 2 THEN (IF IsLeapYear(y) THEN 29 ELSE 28)
    ELSE IF m \in {4, 6, 9, 11} THEN 30 ELSE 31

\* NaiveDate::from_ymd_opt(y, m, d): the date <<y, m, d>>, or NoDate
from_ymd_opt(y, m, d) ==
    IF m \in 1..12 /\ d >= 1 /\ d <= DaysInMonth(y, m) THEN <<y, m, d>> ELSE NoDate

(***************************************************************************)
(* Name codecs (pokemon.rs, encode_name_gen4 .. decode_name_gen5).  A name  *)
(* is a sequence of characters; a character is its Unicode scalar value.    *)
(***************************************************************************)
NAME_FIELD_LEN == 22            \* 0x5E - 0x48
TRAINER_NAME_FIELD_LEN == 16    \* 0x78 - 0x68
TERMINATOR == 65535             \* 0xFFFF

Err == [ok |-> FALSE, value |-> <<>>]
Ok(v) == [ok |-> TRUE, value |-> v]

RECURSIVE EncodeGen4From(_, _)
EncodeGen4From(name, i) ==
    IF i > Len(name) THEN Ok(<<255, 255>>)
    ELSE LET chr == CharmapByRight(name[i])
             rest == EncodeGen4From(name, i + 1)
         IN  IF chr = -1 \/ ~rest.ok THEN Err ELSE Ok(LE16(chr) \o rest.value)

\* encode_name_gen4(name): Ok(bytes), or Err for a character outside the map
encode_name_gen4(name) == EncodeGen4From(name, 1)

RECURSIVE DecodeGen4From(_, _)
DecodeGen4From(words, i) ==
    IF i > Len(words) THEN Ok(<<>>)
    ELSE IF words[i] = TERMINATOR THEN Ok(<<>>)
    ELSE LET chr == CharmapByLeft(words[i])
             rest == DecodeGen4From(words, i + 1)
         IN  IF chr = -1 \/ ~rest.ok THEN Err ELSE Ok(<<chr>> \o rest.value)

\* decode_name_gen4(bytes): Ok(name), or Err for a code outside the map
decode_name_gen4(data) == DecodeGen4From(WordsOf(data), 1)

\* str::encode_utf16 of one character
Utf16Units(c) ==
    IF c < U16 THEN <<c>>
    ELSE <<\HD800 + ((c - U16) \div 1024), \HDC00 + ((c - U16) % 1024)>>

RECURSIVE EncodeUtf16From(_, _)
EncodeUtf16From(name, i) ==
    IF i > Len(name) THEN <<>> ELSE Utf16Units(name[i]) \o EncodeUtf16From(name, i + 1)

RECURSIVE BytesOfUnitsFrom(_, _)
BytesOfUnitsFrom(units, i) ==
    IF i > Len(units) THEN <<>> ELSE LE16(units[i]) \o BytesOfUnitsFrom(units, i + 1)

\* encode_name_gen5(name)
encode_name_gen5(name) == BytesOfUnitsFrom(EncodeUtf16From(name, 1), 1) \o <<255, 255>>

\* String::from_utf16: Ok(characters), or Err for an unpaired surrogate
RECURSIVE FromUtf16From(_, _)
FromUtf16From(units, i) ==
    IF i > Len(units) THEN Ok(<<>>)
    ELSE IF units[i] \in \HD800..\HDBFF
    THEN IF i < Len(units) /\ units[i + 1] \in \HDC00..\HDFFF
         THEN LET rest == FromUtf16From(units, i + 2)
                  c == U16 + ((units[i] - \HD800) * 1024) + (units[i + 1] - \HDC00)
              IN  IF rest.ok THEN Ok(<<c>> \o rest.value) ELSE Err
         ELSE Err
    ELSE IF units[i] \in \HDC00..\HDFFF THEN Err
    ELSE LET rest == FromUtf16From(units, i + 1)
         IN  IF rest.ok THEN Ok(<<units[i]>> \o rest.value) ELSE Err

\* the characters of s before the first U+FFFF: split("\u{ffff}")[0]
RECURSIVE BeforeTerminator(_, _)
BeforeTerminator(chars, i) ==
    IF i > Len(chars) \/ chars[i] = TERMINATOR THEN <<>>
    ELSE <<chars[i]>> \o BeforeTerminator(chars, i + 1)

\* decode_name_gen5(bytes): Ok(name); Err for invalid UTF-16, for a missing
\* terminator and for an empty first part
decode_name_gen5(data) ==
    LET decoded == FromUtf16From(WordsOf(data), 1)
    IN  IF ~decoded.ok THEN Err
        ELSE LET first == BeforeTerminator(decoded.value, 1)
             IN  IF (\A i \in 1..Len(decoded.value) : decoded.value[i] # TERMINATOR)
                        \/ Len(first) = 0
                 THEN Err
                 ELSE Ok(first)

(***************************************************************************)
(* The Pokemon value and its setters (pokemon.rs, lines 52..194, 347..359). *)
(***************************************************************************)
\* the comparison with 16, the threshold of later generations
IsShinyBelow16(p) ==
    BitXor(BitXor(p.trainer_id, p.trainer_secret_id, 16), BitXor(p.pid.hi, p.pid.lo, 16), 16) < 16

\* is_shiny(): tid ^ sid ^ (pid >> 16) ^ (pid & 0xFFFF) < 8
is_shiny(p) ==
    BitXor(BitXor(p.trainer_id, p.trainer_secret_id, 16), BitXor(p.pid.hi, p.pid.lo, 16), 16) < 8

\* xp_needed > exp, for a table entry and a u32
XpNeededExceeds(xp_needed, exp) ==
    \/ exp.hi < xp_needed \div U16
    \/ (exp.hi = xp_needed \div U16 /\ exp.lo < xp_needed % U16)

\* xp_needed >= exp
XpNeededAtLeast(xp_needed, exp) ==
    \/ exp.hi < xp_needed \div U16
    \/ (exp.hi = xp_needed \div U16 /\ exp.lo <= xp_needed % U16)

\* the levels i of `for i in 1..100` at which `xp_needed > exp` holds
LevelCandidatesGt(exp_type, exp) ==
    { i \in 1..(MAX_LEVEL - 1) : XpNeededExceeds(LEVEL_CURVES(i, exp_type), exp) }

\* the same with >= in place of >
LevelCandidatesGe(exp_type, exp) ==
    { i \in 1..(MAX_LEVEL - 1) : XpNeededAtLeast(LEVEL_CURVES(i, exp_type), exp) }

level_candidates(exp_type, exp) == LevelCandidatesGt(exp_type, exp)

\* the first element of an ascending scan over S, or the fall-through value
FirstOr(S, fallthrough) ==
    IF S = {} THEN fallthrough ELSE CHOOSE i \in S : \A j \in S : i <= j

\* level_from_xp(&self): the loop returns at the first i in 1..100 (100
\* excluded) whose threshold exceeds exp, and 100 when there is none
level_from_xp(species, exp) ==
    FirstOr(level_candidates(BASE_STATS(species)[1], exp), MAX_LEVEL)

\* set_pid(&mut self, pid)
set_pid(p, pid) ==
    LET q == [p EXCEPT !.pid = pid, !.nature = U32Mod25(pid)]
    IN  [q EXCEPT !.is_shiny = is_shiny(q)]

\* set_nature(&mut self, nature)
set_nature(p, nature) ==
    LET q == [p EXCEPT !.nature = nature, !.pid = U32WrappingSub(p.pid, nature)]
    IN  [q EXCEPT !.is_shiny = is_shiny(q)]

\* set_experience(&mut self, experience)
set_experience(p, experience) ==
    [p EXCEPT !.experience = experience, !.level = level_from_xp(p.species, experience)]

\* Option::None of the stats
None == [none |-> TRUE]

\* (x as f32 * 1.1) as u16 and (x as f32 * 0.9) as u16: on u16 values the
\* products, rounded to f32 and truncated, are these
TimesOnePointOne(x) == IF (x * 11) \div 10 > U16 - 1 THEN U16 - 1 ELSE (x * 11) \div 10
TimesZeroPointNine(x) == (x * 9) \div 10

\* the stats generate_stats computes before the nature modifiers; the
\* arithmetic is u16, and base_stats[0] .. base_stats[5] of the source are the
\* entries 1 .. 6 of the row here
stats_before_nature(p) ==
    LET base_stats == BASE_STATS(p.species)
        lv == p.level
    IN  [hp  |-> ((((p.ivs.hp + (2 * base_stats[1]) + (p.evs.hp \div 4)) * lv) \div 100) + 10),
         atk |-> (((((p.ivs.atk + (2 * base_stats[2]) + p.evs.atk) \div 4) * lv) \div 100) + 5),
         def |-> (((((p.ivs.def + (2 * base_stats[3]) + p.evs.def) \div 4) * lv) \div 100) + 5),
         spa |-> (((((p.ivs.spa + (2 * base_stats[4]) + p.evs.spa) \div 4) * lv) \div 100) + 5),
         spd |-> (((((p.ivs.spd + (2 * base_stats[5]) + p.evs.spd) \div 4) * lv) \div 100) + 5),
         spe |-> (((((p.ivs.spe + (2 * base_stats[6]) + p.evs.spe) \div 4) * lv) \div 100) + 5)]

\* generate_stats(&self)
generate_stats(p) ==
    LET raw == stats_before_nature(p)
        inc == StatOfIvIndex(NatureIncreasedIndex(p.nature))
        dec == StatOfIvIndex(NatureDecreasedIndex(p.nature))
        up == [raw EXCEPT ![inc] = TimesOnePointOne(raw[inc])]
    IN  [up EXCEPT ![dec] = TimesZeroPointNine(up[dec])]

(***************************************************************************)
(* serialize (pokemon.rs, lines 484..702).                                  *)
(***************************************************************************)
BoolByte(b) == IF b THEN 1 ELSE 0

\* Gen 4 stores in 0x41 the shiny leaves
LeafBits(leaves) ==
    (IF "A" \in leaves THEN 1 ELSE 0) + (IF "B" \in leaves THEN 2 ELSE 0)
        + (IF "C" \in leaves THEN 4 ELSE 0) + (IF "D" \in leaves THEN 8 ELSE 0)
        + (IF "E" \in leaves THEN 16 ELSE 0) + (IF "Crown" \in leaves THEN 32 ELSE 0)

\* the name field: encode, then resize to the field length.  An unencodable
\* Gen 4 name is should_be_ok!'s failure; the value is then left empty.
NameField(name, is_gen5, len) ==
    IF is_gen5 THEN Resize(encode_name_gen5(name), len)
    ELSE Resize(encode_name_gen4(name).value, len)

DateBytes(date) ==
    IF date = NoDate THEN <<0, 0, 0>> ELSE <<(date[1] - 2000) % 256, date[2], date[3]>>

\* the location as it is, whatever the game
DpLocationUnclamped(id) == id

\* if loc <= DP_LAST_LOCATION { loc } else { FarawayPlace }
DpLocation(id) == IF id <= DP_LAST_LOCATION THEN id ELSE GEN4_FARAWAY_PLACE

\* the six IVs packed five bits each, HP Atk Def Spe SpA SpD from bit 0 (the
\* IVs of the model are at most 31, so the shifted values do not overlap)
IvWord(ivs) ==
    ivs.hp + (ivs.atk * 32) + (ivs.def * 1024) + (ivs.spe * 32768)
        + (ivs.spa * 1048576) + (ivs.spd * 33554432)

IvBytes(p) ==
    LET w == IvWord(p.ivs)
    IN  <<w % 256, (w \div 256) % 256, (w \div 65536) % 256,
          BitOr(w \div 16777216, (BoolByte(p.is_egg) * 64) + (BoolByte(p.is_nicknamed) * 128), 8)>>

\* the stats a record carries: those of the Pokemon, or generated ones
StatsToWrite(p) == IF p.stats = None THEN generate_stats(p) ELSE p.stats

\* 0x08..0x28
BlockA(p) ==
    LE16(p.species) \o LE16(p.held_item) \o LE16(p.trainer_id) \o LE16(p.trainer_secret_id)
        \o LE32(p.experience)
        \o <<p.friendship, p.ability % 256, p.markings, p.language>>
        \o <<p.evs.hp % 256, p.evs.atk % 256, p.evs.def % 256,
             p.evs.spa % 256, p.evs.spd % 256, p.evs.spe % 256>>
        \o <<p.contest_stats.cool, p.contest_stats.beauty, p.contest_stats.cute,
             p.contest_stats.smart, p.contest_stats.tough, p.contest_stats.sheen>>
        \o SubSeq(p.sinnoh_ribbons, 1, 4)

\* 0x28..0x48
BlockB(p) ==
    LE16(p.moves[1]) \o LE16(p.moves[2]) \o LE16(p.moves[3]) \o LE16(p.moves[4])
        \o p.move_pps \o p.move_pp_ups
        \o IvBytes(p)
        \o p.hoenn_ribbons
        \o <<BitOr(BitOr(BoolByte(p.fateful), p.gender * 2, 8), (p.form_id * 8) % 256, 8)>>
        \o <<IF ~p.is_gen5 THEN LeafBits(p.shiny_leaves) ELSE p.nature % 256>>
        \o <<0, 0>>
        \o (IF ~p.is_gen5 THEN LE16(p.egg_location.id) \o LE16(p.met_location.id)
            ELSE <<0, 0, 0, 0>>)

\* 0x48..0x68
BlockC(p) ==
    NameField(p.name, p.is_gen5, NAME_FIELD_LEN)
        \o <<0, p.origin_game>>
        \o SubSeq(p.sinnoh_ribbons, 5, 8)
        \o <<0, 0, 0, 0>>

\* 0x68..0x88
BlockD(p) ==
    NameField(p.trainer_name, p.is_gen5, TRAINER_NAME_FIELD_LEN)
        \o DateBytes(p.egg_date) \o DateBytes(p.met_date)
        \o (IF ~p.is_gen5
            THEN LE16(DpLocation(p.egg_location.id)) \o LE16(DpLocation(p.met_location.id))
            ELSE LE16(p.egg_location.id) \o LE16(p.met_location.id))
        \o <<p.pokerus,
             IF ~p.is_gen5 /\ p.ball >= FIRST_HGSS_BALL THEN POKE_BALL ELSE p.ball,
             BitOr(p.met_level, (p.trainer_gender * 128) % 256, 8),
             p.encounter_type,
             IF ~p.is_gen5 THEN p.ball ELSE 0,
             p.performance>>

\* 0x88..end
PartyTail(p) ==
    LET stats == StatsToWrite(p)
    IN  <<0, 0, 0, 0, p.level, 0>> \o LE16(stats.hp)
            \o LE16(stats.hp) \o LE16(stats.atk) \o LE16(stats.def)
            \o LE16(stats.spe) \o LE16(stats.spa) \o LE16(stats.spd)
            \o Zeros((IF p.is_gen5 THEN GEN5_PKM_LEN ELSE GEN4_PKM_LEN) - \H9C)

\* bytes[0x08..BOXED_PKM_LEN].chunks(2).fold(0u16, wrapping_add)
RECURSIVE WrappingSumFrom(_, _, _)
WrappingSumFrom(words, from, to) ==
    IF from > to THEN 0
    ELSE IF from = to THEN words[from]
    ELSE LET mid == (from + to) \div 2
         IN  (WrappingSumFrom(words, from, mid) + WrappingSumFrom(words, mid + 1, to)) % U16

ComputedChecksum(p, blocks) == WrappingSumFrom(WordsOf(blocks), 1, Len(blocks) \div 2)

\* the checksum the Pokemon was deserialized with
OriginalChecksum(p, blocks) == p.original_checksum

checksum_to_store(p, blocks) == ComputedChecksum(p, blocks)

\* whether serialize reaches should_be_ok!'s / should_not_happen!'s failure
SerializeFails(p) ==
    ~p.is_gen5 /\ (\/ ~encode_name_gen4(p.name).ok
                   \/ ~encode_name_gen4(p.trainer_name).ok
                   \/ p.egg_location.gen # 4
                   \/ p.met_location.gen # 4)

\* serialize(&self)
serialize(p) ==
    LET blocks == BlockA(p) \o BlockB(p) \o BlockC(p) \o BlockD(p)
    IN  LE32(p.pid)
            \o <<BitOr(BoolByte(p.encryption_bypass), BoolByte(p.bad_egg_flag) * 2, 8), 0>>
            \o LE16(checksum_to_store(p, blocks))
            \o blocks
            \o PartyTail(p)

(***************************************************************************)
(* deserialize (pokemon.rs, lines 706..998).                                *)
(***************************************************************************)
\* Pokemon::default()
DefaultPokemon ==
    [species |-> 0, name |-> <<>>, pid |-> U32(0, 0), nature |-> 0,
     encryption_bypass |-> FALSE, bad_egg_flag |-> FALSE, original_checksum |-> 0,
     held_item |-> 0, trainer_id |-> 0, trainer_secret_id |-> 0,
     experience |-> U32(0, 0), level |-> 0, friendship |-> 0, ability |-> 0,
     markings |-> 0, language |-> 2,
     evs |-> [hp |-> 0, atk |-> 0, def |-> 0, spa |-> 0, spd |-> 0, spe |-> 0],
     contest_stats |-> [cool |-> 0, beauty |-> 0, cute |-> 0, smart |-> 0, tough |-> 0, sheen |-> 0],
     sinnoh_ribbons |-> Zeros(8), moves |-> Zeros(4), move_pps |-> Zeros(4),
     move_pp_ups |-> Zeros(4),
     ivs |-> [hp |-> 0, atk |-> 0, def |-> 0, spa |-> 0, spd |-> 0, spe |-> 0],
     is_egg |-> FALSE, is_nicknamed |-> FALSE, hoenn_ribbons |-> Zeros(4),
     fateful |-> FALSE, gender |-> 2, form_id |-> 0, shiny_leaves |-> {},
     egg_location |-> Gen4Loc(GEN4_FARAWAY_PLACE), met_location |-> Gen4Loc(GEN4_FARAWAY_PLACE),
     origin_game |-> 10, trainer_name |-> <<>>, egg_date |-> NoDate,
     met_date |-> <<1970, 1, 1>>, pokerus |-> 0, ball |-> POKE_BALL, met_level |-> 0,
     trainer_gender |-> 2, encounter_type |-> 0, performance |-> 0,
     stats |-> None, is_shiny |-> FALSE, is_gen5 |-> FALSE]

\* pkm.is_gen5 = bytes.len() == GEN5_PKM_LEN || species_id > 493
RecordIsGen5(b) == Len(b) = GEN5_PKM_LEN \/ ReadU16(b, \H08) > LAST_GEN4_SPECIES

\* the mask of the encryption-bypass test at offset 0x04
BYPASS_MASK == 3

BypassBit(b) == BitAnd(At(b, \H04), BYPASS_MASK, 8) # 0

\* the offset the is-egg bit is read from
IS_EGG_READ_OFFSET == 60    \* 0x3C

\* the location stored in the Plat/HGSS slot when it is not zero, else the one
\* of the other slot, typed by the generation
ReadLocation(b, plat_off, other_off) ==
    IF ReadU16(b, plat_off) # 0 THEN Gen4Loc(ReadU16(b, plat_off))
    ELSE IF ~RecordIsGen5(b) THEN Gen4Loc(ReadU16(b, other_off))
    ELSE Gen5Loc(ReadU16(b, other_off))

LocationIsValid(loc) ==
    IF loc.gen = 4 THEN loc.id \in Gen4LocationIds ELSE loc.id \in Gen5LocationIds

ReadName(b, from, to) ==
    IF ~RecordIsGen5(b) THEN decode_name_gen4(Slice(b, from, to))
    ELSE decode_name_gen5(Slice(b, from, to))

\* if !is_gen5 && hgss_ball != 0 { hgss_ball } else { ball }
ReadBall(b) == IF ~RecordIsGen5(b) /\ At(b, \H86) # 0 THEN At(b, \H86) ELSE At(b, \H83)

ReadLeaves(b) ==
    { l \in {"A", "B", "C", "D", "E", "Crown"} :
        BitAnd(At(b, \H41), LeafBits({l}), 8) # 0 }

ReadIvs(b) ==
    [hp  |-> At(b, \H38) % 32,
     atk |-> (ReadU16(b, \H38) \div 32) % 32,
     def |-> (ReadU16(b, \H38) \div 1024) % 32,
     spe |-> (ReadU16(b, \H38) \div 32768) + ((At(b, \H3A) % 16) * 2),
     spa |-> (At(b, \H3A) \div 16) + ((At(b, \H3B) % 2) * 16),
     spd |-> (At(b, \H3B) \div 2) % 32]

\* every should_be_some! / should_be_ok! of deserialize succeeds
FieldsAreValid(b) ==
    /\ ReadU16(b, \H08) < SPECIES_COUNT
    /\ ReadU16(b, \H0A) < (IF RecordIsGen5(b) THEN ITEMS_GEN5_COUNT ELSE ITEMS_GEN4_COUNT)
    /\ At(b, \H15) < ABILITIES_COUNT
    /\ At(b, \H17) \in LanguageIds
    /\ \A k \in 0..3 : ReadU16(b, \H28 + (2 * k)) < MOVES_COUNT
    /\ (At(b, \H40) \div 2) % 4 \in GenderIds
    /\ (RecordIsGen5(b) => At(b, \H41) < NATURES_COUNT)
    /\ LocationIsValid(ReadLocation(b, \H44, \H7E))
    /\ LocationIsValid(ReadLocation(b, \H46, \H80))
    /\ ReadName(b, \H48, \H5E).ok
    /\ At(b, \H5F) \in GameIds
    /\ ReadName(b, \H68, \H78).ok
    /\ from_ymd_opt(At(b, \H7B) + 2000, At(b, \H7C), At(b, \H7D)) # NoDate
    /\ ReadBall(b) \in PokeballIds

\* the Pokemon the field-by-field population builds from a record whose
\* fields are valid and whose offsets 0x8C.. exist
PopulatedPokemon(b) ==
    LET is_gen5 == RecordIsGen5(b)
        afterPid == set_pid([DefaultPokemon EXCEPT !.is_gen5 = is_gen5], ReadU32(b, \H00))
    IN  [afterPid EXCEPT
            !.encryption_bypass = BypassBit(b),
            !.bad_egg_flag = BitAnd(At(b, \H04), 2, 8) # 0,
            !.original_checksum = ReadU16(b, \H06),
            !.species = ReadU16(b, \H08),
            !.held_item = ReadU16(b, \H0A),
            !.trainer_id = ReadU16(b, \H0C),
            !.trainer_secret_id = ReadU16(b, \H0E),
            !.experience = ReadU32(b, \H10),
            !.friendship = At(b, \H14),
            !.ability = At(b, \H15),
            !.markings = At(b, \H16),
            !.language = At(b, \H17),
            !.evs = [hp |-> At(b, \H18), atk |-> At(b, \H19), def |-> At(b, \H1A),
                     spa |-> At(b, \H1B), spd |-> At(b, \H1C), spe |-> At(b, \H1D)],
            !.contest_stats = [cool |-> At(b, \H1E), beauty |-> At(b, \H1F), cute |-> At(b, \H20),
                               smart |-> At(b, \H21), tough |-> At(b, \H22), sheen |-> At(b, \H23)],
            !.sinnoh_ribbons = Slice(b, \H24, \H28) \o Slice(b, \H60, \H64),
            !.moves = <<ReadU16(b, \H28), ReadU16(b, \H2A), ReadU16(b, \H2C), ReadU16(b, \H2E)>>,
            !.move_pps = Slice(b, \H30, \H34),
            !.move_pp_ups = Slice(b, \H34, \H38),
            !.ivs = ReadIvs(b),
            !.is_egg = BitAnd(At(b, IS_EGG_READ_OFFSET), \H40, 8) # 0,
            !.is_nicknamed = BitAnd(At(b, \H3B), \H80, 8) # 0,
            !.hoenn_ribbons = <<At(b, \H3C) % 64, At(b, \H3D), At(b, \H3E), At(b, \H3F)>>,
            !.fateful = At(b, \H40) % 2 # 0,
            !.gender = (At(b, \H40) \div 2) % 4,
            !.form_id = At(b, \H40) \div 8,
            !.shiny_leaves = IF ~is_gen5 THEN ReadLeaves(b) ELSE {},
            !.nature = IF ~is_gen5 THEN afterPid.nature ELSE At(b, \H41),
            !.egg_location = ReadLocation(b, \H44, \H7E),
            !.met_location = ReadLocation(b, \H46, \H80),
            !.name = ReadName(b, \H48, \H5E).value,
            !.origin_game = At(b, \H5F),
            !.trainer_name = ReadName(b, \H68, \H78).value,
            !.egg_date = from_ymd_opt(At(b, \H78) + 2000, At(b, \H79), At(b, \H7A)),
            !.met_date = from_ymd_opt(At(b, \H7B) + 2000, At(b, \H7C), At(b, \H7D)),
            !.pokerus = At(b, \H82),
            !.ball = ReadBall(b),
            !.met_level = At(b, \H84) % 128,
            !.trainer_gender = At(b, \H84) \div 128,
            !.encounter_type = At(b, \H85),
            !.performance = At(b, \H87),
            !.level = At(b, \H8C),
            !.stats = [hp  |-> ReadU16(b, \H90), atk |-> ReadU16(b, \H92),
                       def |-> ReadU16(b, \H94), spe |-> ReadU16(b, \H96),
                       spa |-> ReadU16(b, \H98), spd |-> ReadU16(b, \H9A)]]

\* the lengths the opening assert! lets through
AcceptedLengths == {BOXED_PKM_LEN, GEN4_PKM_LEN, GEN5_PKM_LEN}

\* the smallest length for which bytes[0x8C] exists
LEVEL_INDEX_BOUND == 141    \* 0x8C + 1

\* deserialize(bytes): the outcomes of the call.  "panic" is the failed
\* assert! on the length, a failed should_be_*! of a debug build, or the
\* bounds check of bytes[0x8C]; a failed should_be_*! of a release build is
\* unreachable_unchecked(), after which the call may do anything: panic, or
\* return a Pokemon of arbitrary content (here the default or the populated
\* one).
deserialize(b, debug) ==
    IF Len(b) \notin AcceptedLengths THEN {[outcome |-> "panic", pkm |-> NoPkm]}
    ELSE IF ~FieldsAreValid(b)
    THEN IF debug THEN {[outcome |-> "panic", pkm |-> NoPkm]}
         ELSE {[outcome |-> "panic", pkm |-> NoPkm], [outcome |-> "ub", pkm |-> DefaultPokemon]}
    ELSE IF Len(b) < LEVEL_INDEX_BOUND THEN {[outcome |-> "panic", pkm |-> NoPkm]}
    ELSE {[outcome |-> "ok", pkm |-> PopulatedPokemon(b)]}

(***************************************************************************)
(* Well-formed Pokemon values the specifications start from.                *)
(***************************************************************************)
\* party stats as the games compute them are not needed: any in-range values do
SampleStats == [hp |-> 35, atk |-> 21, def |-> 17, spa |-> 19, spd |-> 20, spe |-> 30]

\* a Gen 4 Pikachu named "Pika" of trainer "Ash", met in a Diamond/Pearl location
Gen4Sample ==
    [DefaultPokemon EXCEPT
        !.species = 25, !.name = <<80, 105, 107, 97>>,
        !.held_item = 1, !.trainer_id = 12345, !.trainer_secret_id = 54321,
        !.experience = U32(0, 1000), !.friendship = 70, !.ability = 9,
        !.markings = 5, !.language = 2,
        !.evs = [hp |-> 4, atk |-> 252, def |-> 0, spa |-> 0, spd |-> 0, spe |-> 252],
        !.contest_stats = [cool |-> 1, beauty |-> 2, cute |-> 3, smart |-> 4, tough |-> 5, sheen |-> 6],
        !.sinnoh_ribbons = <<1, 0, 0, 2, 0, 3, 0, 4>>,
        !.moves = <<84, 45, 98, 0>>, !.move_pps = <<30, 40, 30, 0>>,
        !.move_pp_ups = <<0, 1, 0, 0>>,
        !.ivs = [hp |-> 31, atk |-> 30, def |-> 0, spa |-> 17, spd |-> 1, spe |-> 31],
        !.hoenn_ribbons = <<1, 2, 3, 4>>,
        !.fateful = TRUE, !.gender = 1, !.form_id = 2, !.shiny_leaves = {"A", "Crown"},
        !.egg_location = Gen4Loc(0), !.met_location = Gen4Loc(16),
        !.origin_game = 10, !.trainer_name = <<65, 115, 104>>,
        !.met_date = <<2010, 5, 17>>, !.pokerus = 0, !.ball = FIRST_HGSS_BALL,
        !.met_level = 5, !.trainer_gender = 1, !.encounter_type = 2, !.performance = 0]

\* a Gen 5 Victini met in a Gen 5 location
Gen5Sample ==
    [Gen4Sample EXCEPT
        !.species = 494, !.shiny_leaves = {}, !.is_gen5 = TRUE,
        !.egg_location = Gen5Loc(0), !.met_location = Gen5Loc(30001),
        !.origin_game = 20, !.ball = POKE_BALL]

SamplePids == { U32(\H1234, \H5678), U32(0, 0), U32(\HFFFF, \HFFFF) }

\* the sample with the PID set through set_pid, the level through
\* set_experience, the flags and the party stats as given
WellFormed(is_gen5, party, pid, bypass, bad_egg, egg, nicknamed) ==
    LET base == IF is_gen5 THEN Gen5Sample ELSE Gen4Sample
        q == set_experience(set_pid(base, pid), base.experience)
    IN  [q EXCEPT !.encryption_bypass = bypass, !.bad_egg_flag = bad_egg,
                  !.is_egg = egg, !.is_nicknamed = nicknamed,
                  !.stats = IF party THEN SampleStats ELSE None]

WellFormedPokemon ==
    { WellFormed(g, party, U32(\H1234, \H5678), bp, be, e, n) :
        g \in BOOLEAN, party \in BOOLEAN, bp \in BOOLEAN, be \in BOOLEAN,
        e \in BOOLEAN, n \in BOOLEAN }

(***************************************************************************)
(* Specification of level_from_xp as a pure function.                       *)
(***************************************************************************)
ToU32(v) == U32(v \div U16, v % U16)

\* experience values on and next to the thresholds of the levels 2, 3, 50, 99
\* and 100 of every growth class, and the ends of the u32 range
LevelExperiences ==
    { ToU32(LEVEL_CURVES(n, c) + d) : n \in {2, 3, 50, 99, MAX_LEVEL}, c \in 0..5, d \in {-1, 0, 1} }
        \cup { U32(0, 0), U32(U16 - 1, U16 - 1) }

InitLevel ==
    /\ pkm \in { [Gen5Sample EXCEPT !.species = sp] : sp \in ModelSpecies }
    /\ bytes = <<>>
    /\ op = "init"
    /\ arg \in LevelExperiences
    /\ result = 0
    /\ saved = NoArg
    /\ debug_build \in BOOLEAN
    /\ steps = 0
    /\ InitEnv

\* the level of the Pokemon's species at the experience arg
LevelFromXp ==
    /\ op = "init"
    /\ op' = "level_from_xp"
    /\ result' = level_from_xp(pkm.species, arg)
    /\ steps' = steps + 1
    /\ UNCHANGED <<pkm, bytes, arg, saved, debug_build>>
    /\ UNCHANGED env

NextLevel == LevelFromXp

SpecLevel == InitLevel /\ [][NextLevel]_vars

(***************************************************************************)
(* C7: level from experience.                                               *)
(***************************************************************************)
ExpOf(x) == (x.hi * U16) + x.lo

\* curve[L][class] > experience >= curve[L-1][class], on experience values
\* that fit the integers; a larger one is above every entry of the table
InLevelBand(L, class, exp) ==
    IF exp.hi >= 32768 THEN FALSE
    ELSE LEVEL_CURVES(L, class) > ExpOf(exp) /\ ExpOf(exp) >= LEVEL_CURVES(L - 1, class)

AtLeastLastEntry(class, exp) ==
    exp.hi >= 32768 \/ ExpOf(exp) >= LEVEL_CURVES(MAX_LEVEL, class)

\* C7: for every species and experience, level_from_xp returns the one L in
\* 1..100 with curve[L][class] > experience >= curve[L-1][class], and 100 when
\* experience >= curve[100][class]
C7_LevelFromXp ==
    op = "level_from_xp" =>
        LET class == BASE_STATS(pkm.species)[1]
        IN  /\ result \in 1..MAX_LEVEL
            /\ IF AtLeastLastEntry(class, arg) THEN result = MAX_LEVEL
               ELSE /\ InLevelBand(result, class, arg)
                    /\ \A M \in 1..MAX_LEVEL : InLevelBand(M, class, arg) => M = result

\* C7 witness: an experience exactly on the threshold of level 50 of the
\* slow class has been mapped, and one beyond the last entry has
C7_Witness ==
    /\ op = "level_from_xp"
    /\ BASE_STATS(pkm.species)[1] = 5
    /\ arg = ToU32(LEVEL_CURVES(50, 5))
    /\ result = 51


(***************************************************************************)
(* Specification of the setters on one Pokemon.                             *)
(***************************************************************************)
SetterPids == { U32(0, 0), U32(0, 26), U32(\H1234, \H5678), U32(\HFFFF, \HFFFF) }

SetterNatures == { 0, 1, 7, 12, NATURES_COUNT - 1 }

SetterExperiences == { U32(0, 0), U32(0, 8), U32(0, 1000), U32(15, 16960), U32(U16 - 1, U16 - 1) }

SetterSpecies == { 25, 129, 290 }

InitSetters ==
    /\ pkm \in { WellFormed(g, TRUE, pid, FALSE, FALSE, FALSE, FALSE) :
                    g \in BOOLEAN, pid \in SamplePids }
    /\ bytes = <<>>
    /\ op = "init"
    /\ arg = NoArg
    /\ result = "ok"
    /\ saved = NoArg
    /\ debug_build \in BOOLEAN
    /\ steps = 0
    /\ InitEnv

\* one call or assignment on the Pokemon at hand
SetterCall(name, a, q) ==
    /\ steps < MaxSetterCalls
    /\ op' = name
    /\ arg' = a
    /\ pkm' = q
    /\ steps' = steps + 1
    /\ UNCHANGED <<bytes, result, saved, debug_build>>
    /\ UNCHANGED env

SetPid == \E pid \in SetterPids : SetterCall("set_pid", pid, set_pid(pkm, pid))

SetNature == \E n \in SetterNatures : SetterCall("set_nature", n, set_nature(pkm, n))

SetExperience ==
    \E e \in SetterExperiences : SetterCall("set_experience", e, set_experience(pkm, e))

\* pkm.species = ...: the field is public and nothing else is touched
SetSpecies ==
    \E sp \in SetterSpecies : SetterCall("species", sp, [pkm EXCEPT !.species = sp])

NextSetters == SetPid \/ SetNature \/ SetExperience \/ SetSpecies

SpecSetters == InitSetters /\ [][NextSetters]_vars

(***************************************************************************)
(* C4: nature and PID through the setters.                                  *)
(***************************************************************************)
\* C4: after set_pid(p) the nature id is p mod 25, and after set_nature(n)
\* the PID mod 25 is n
C4_NaturePidCoupling ==
    /\ (op = "set_pid" => pkm.nature = U32Mod25(arg))
    /\ (op = "set_nature" => U32Mod25(pkm.pid) = arg)

\* C4, the half that set_pid keeps
C4_SetPidSetsNature == op = "set_pid" => pkm.nature = U32Mod25(arg) /\ pkm.pid = arg

\* C4: set_nature(1) on PID 0 has left PID 0xFFFFFFFF, whose residue is 20
C4_SetNatureBreaksCoupling ==
    /\ op = "set_nature"
    /\ arg = 1
    /\ pkm.pid = U32(U16 - 1, U16 - 1)
    /\ pkm.nature = 1
    /\ U32Mod25(pkm.pid) = 20


(***************************************************************************)
(* Specification of the codec: a Pokemon is serialized, the record may be   *)
(* replaced by one read from a file or from the network (another length,    *)
(* other bytes), and a record is deserialized.                              *)
(***************************************************************************)
\* lengths of the records that reach deserialize
RecordLengths == { BOXED_PKM_LEN - 1, BOXED_PKM_LEN, GEN4_PKM_LEN + 1 }

\* bytes in which a received record differs from the one serialized here:
\* the stored checksum, the species, byte 0x41, the level, and an id no
\* enumeration has for the item, the ability, the language, the second move,
\* the gender, the met location, the game and the ball; and a location in
\* the Plat/HGSS egg slot
RecordPatches ==
    { <<\H06, \HEF>>, <<\H09, \HFF>>, <<\H41, 24>>, <<\H8C, 1>>,
      <<\H0B, \HFF>>, <<\H15, \HFF>>, <<\H17, 0>>, <<\H2B, \HFF>>,
      <<\H40, 6>>, <<\H47, \HFF>>, <<\H5F, 0>>, <<\H83, 0>>, <<\H44, 1>> }

InitCodec ==
    /\ pkm \in WellFormedPokemon
    /\ bytes = <<>>
    /\ op = "init"
    /\ arg = NoArg
    /\ result = "ok"
    /\ saved = NoPkm
    /\ debug_build \in BOOLEAN
    /\ steps = 0
    /\ InitEnv

\* bytes = pkm.serialize(); saved remembers the Pokemon that was serialized
Serialize ==
    /\ result = "ok"
    /\ steps < MaxSteps
    /\ op' = "serialize"
    /\ arg' = NoArg
    /\ saved' = pkm
    /\ IF SerializeFails(pkm)
       THEN /\ result' \in (IF debug_build THEN {"panic"} ELSE {"panic", "ub"})
            /\ bytes' = <<>>
       ELSE /\ result' = "ok"
            /\ bytes' = serialize(pkm)
    /\ steps' = steps + 1
    /\ UNCHANGED <<pkm, debug_build>>
    /\ UNCHANGED env

\* a record of the same content and another length arrives
ReceiveLength ==
    /\ op = "serialize"
    /\ result = "ok"
    /\ steps < MaxSteps
    /\ \E n \in RecordLengths :
          /\ bytes' = Resize(bytes, n)
          /\ arg' = <<n>>
    /\ op' = "receive"
    /\ steps' = steps + 1
    /\ UNCHANGED <<pkm, result, saved, debug_build>>
    /\ UNCHANGED env

\* a record that differs in one byte arrives
ReceivePatched ==
    /\ op = "serialize"
    /\ result = "ok"
    /\ steps < MaxSteps
    /\ \E patch \in RecordPatches :
          /\ bytes' = [bytes EXCEPT ![patch[1] + 1] = patch[2]]
          /\ arg' = patch
    /\ op' = "receive"
    /\ steps' = steps + 1
    /\ UNCHANGED <<pkm, result, saved, debug_build>>
    /\ UNCHANGED env

\* pkm = Pokemon::deserialize(&bytes)
Deserialize ==
    /\ op \in {"serialize", "receive"}
    /\ result = "ok"
    /\ steps < MaxSteps
    /\ \E r \in deserialize(bytes, debug_build) :
          /\ pkm' = r.pkm
          /\ result' = r.outcome
    /\ op' = "deserialize"
    /\ arg' = NoArg
    /\ steps' = steps + 1
    /\ UNCHANGED <<bytes, saved, debug_build>>
    /\ UNCHANGED env

NextCodec == Serialize \/ ReceiveLength \/ ReceivePatched \/ Deserialize

SpecCodec == InitCodec /\ [][NextCodec]_vars


(***************************************************************************)
(* C1: the round trip through serialize and deserialize.                    *)
(***************************************************************************)
\* the fields of a Pokemon other than the checksum it was read with
DataFields(p) == [p EXCEPT !.original_checksum = 0]

\* C1: for every well-formed Pokemon P, deserialize(P.serialize()) returns a
\* Pokemon equal to P in every field
C1_RoundTrip ==
    (op = "deserialize" /\ saved # NoPkm /\ bytes = serialize(saved)) =>
        (result = "ok" /\ DataFields(pkm) = DataFields(saved))

\* C1, the part the code keeps: a party Pokemon that is not an egg and whose
\* bad-egg flag is not set without the bypass flag comes back equal
C1_RoundTripWithoutEggFlags ==
    (/\ op = "deserialize"
     /\ saved # NoPkm
     /\ bytes = serialize(saved)
     /\ saved.stats # None
     /\ ~saved.is_egg
     /\ (saved.bad_egg_flag => saved.encryption_bypass)) =>
        (result = "ok" /\ DataFields(pkm) = DataFields(saved))

\* C1: a party Pokemon with the bad-egg flag and without the bypass
\* flag has come back with the bypass flag set and all else equal
C1_BadEggSetsBypass ==
    /\ op = "deserialize"
    /\ result = "ok"
    /\ saved # NoPkm
    /\ bytes = serialize(saved)
    /\ saved.bad_egg_flag /\ ~saved.encryption_bypass
    /\ pkm.encryption_bypass
    /\ DataFields(pkm) = DataFields([saved EXCEPT !.encryption_bypass = TRUE])

(***************************************************************************)
(* C3: the checksum of a serialized record.                                 *)
(***************************************************************************)
\* eight consecutive little-endian words from offset off
EightWords(b, off) ==
    ReadU16(b, off) + ReadU16(b, off + 2) + ReadU16(b, off + 4) + ReadU16(b, off + 6)
        + ReadU16(b, off + 8) + ReadU16(b, off + 10) + ReadU16(b, off + 12)
        + ReadU16(b, off + 14)

\* the sum modulo 2^16 of the 64 words at 0x08..0x88
WordSum(b) ==
    (EightWords(b, \H08) + EightWords(b, \H18) + EightWords(b, \H28) + EightWords(b, \H38)
        + EightWords(b, \H48) + EightWords(b, \H58) + EightWords(b, \H68)
        + EightWords(b, \H78)) % U16

\* C3: in every record returned by serialize the u16 at 0x06 is the sum
\* modulo 2^16 of the 64 words at 0x08..0x88, whatever checksum the Pokemon
\* was deserialized with
C3_ChecksumConsistency ==
    (op = "serialize" /\ result = "ok") => ReadU16(bytes, \H06) = WordSum(bytes)

\* C3 witness: a Pokemon deserialized from a record with another checksum
\* has been serialized, and the record does not carry that checksum
C3_Witness ==
    /\ op = "serialize"
    /\ result = "ok"
    /\ pkm.original_checksum % U8 = \HEF
    /\ pkm.original_checksum # WordSum(bytes)
    /\ ReadU16(bytes, \H06) # pkm.original_checksum

(***************************************************************************)
(* C5: nature and PID in every Pokemon.                                     *)
(***************************************************************************)
\* C5: in every Pokemon, and in the one deserialize returns for every
\* accepted Gen 4 and Gen 5 record, the nature id is the PID mod 25
C5_NatureIsPidMod25 ==
    (pkm # NoPkm /\ result = "ok") => pkm.nature = U32Mod25(pkm.pid)

\* C5, the part the code keeps: a deserialized Gen 4 Pokemon has the nature
\* of its PID
C5_Gen4NatureIsPidMod25 ==
    (op = "deserialize" /\ result = "ok" /\ ~pkm.is_gen5) => pkm.nature = U32Mod25(pkm.pid)

\* C5: a Gen 5 record whose byte 0x41 is not the PID mod 25 has been
\* deserialized, and the nature is that byte
C5_Gen5NatureFromByte ==
    /\ op = "deserialize"
    /\ result = "ok"
    /\ pkm.is_gen5
    /\ pkm.nature = At(bytes, \H41)
    /\ pkm.nature # U32Mod25(pkm.pid)

(***************************************************************************)
(* C6: the lengths deserialize accepts.                                     *)
(***************************************************************************)
\* C6: deserialize returns a Pokemon for every record of 136, 220 or 236
\* bytes with valid fields, one without stats for 136 bytes, and rejects
\* every other length
C6_AcceptedLengths ==
    op = "deserialize" =>
        IF Len(bytes) \in AcceptedLengths
        THEN FieldsAreValid(bytes) =>
                (result = "ok" /\ (Len(bytes) = BOXED_PKM_LEN => pkm.stats = None))
        ELSE result = "panic"

\* C6, the part the code keeps: 220 and 236 bytes with valid fields are
\* accepted with stats, other lengths are rejected
C6_PartyLengthsAccepted ==
    op = "deserialize" =>
        IF Len(bytes) \in {GEN4_PKM_LEN, GEN5_PKM_LEN}
        THEN FieldsAreValid(bytes) => (result = "ok" /\ pkm.stats # None)
        ELSE Len(bytes) \notin AcceptedLengths => result = "panic"

\* C6: a 136-byte record with valid fields has been given to deserialize,
\* and the call has panicked
C6_BoxedRecordPanics ==
    /\ op = "deserialize"
    /\ Len(bytes) = BOXED_PKM_LEN
    /\ FieldsAreValid(bytes)
    /\ result = "panic"

(***************************************************************************)
(* C8: the stored level.                                                    *)
(***************************************************************************)
\* the largest L in 1..100 whose entry does not exceed the experience
LargestLevelNotExceeding(class, exp) ==
    CHOOSE L \in 1..MAX_LEVEL :
        /\ (exp.hi >= 32768 \/ LEVEL_CURVES(L, class) <= ExpOf(exp))
        /\ \A M \in 1..MAX_LEVEL :
              (exp.hi >= 32768 \/ LEVEL_CURVES(M, class) <= ExpOf(exp)) => M <= L

\* C8: after deserialize, set_experience or an assignment to species, the
\* stored level is the largest L in 1..100 whose curve entry for the species'
\* growth class does not exceed the experience
C8_StoredLevel ==
    (pkm # NoPkm /\ result = "ok" /\ op \in {"deserialize", "set_experience", "species"}) =>
        pkm.level = LargestLevelNotExceeding(BASE_STATS(pkm.species)[1], pkm.experience)

\* C8: a record whose byte 0x8C is 1 and whose experience is 1000 has been
\* deserialized, and the stored level is 1
C8_LevelTakenFromRecord ==
    /\ op = "deserialize"
    /\ result = "ok"
    /\ pkm.experience = U32(0, 1000)
    /\ pkm.level = 1
    /\ LargestLevelNotExceeding(BASE_STATS(pkm.species)[1], pkm.experience) = 10


(***************************************************************************)
(* Specification of shininess: the PID is set through set_pid, the public   *)
(* fields trainer_id and trainer_secret_id are assigned, and the Pokemon is  *)
(* serialized and read back.                                                *)
(***************************************************************************)
\* 0xE4080000 is shiny for the sample's trainer (12345 ^ 54321 = 0xE408)
ShinyPids == { U32(0, 0), U32(\HE408, 0), U32(\H1234, \H5678) }

\* the sample's trainer id, the same with its low 3 bits flipped, with bit 3
\* flipped, and zero
ShinyTrainerIds == { 12345, 12350, 12337, 0 }

\* the sample's secret id, and the same with bits 0 and 2 flipped
ShinySecretIds == { 54321, 54324 }

InitShiny ==
    /\ pkm \in { WellFormed(g, TRUE, pid, FALSE, FALSE, FALSE, FALSE) :
                    g \in BOOLEAN, pid \in ShinyPids }
    /\ bytes = <<>>
    /\ op = "init"
    /\ arg = NoArg
    /\ result = "ok"
    /\ saved = NoPkm
    /\ debug_build \in BOOLEAN
    /\ steps = 0
    /\ InitEnv

\* one call or assignment on the Pokemon at hand; saved keeps the Pokemon as
\* it was before
ShinyCall(name, a, q) ==
    /\ result = "ok"
    /\ steps < MaxSteps
    /\ op' = name
    /\ arg' = a
    /\ saved' = pkm
    /\ pkm' = q
    /\ steps' = steps + 1
    /\ UNCHANGED <<bytes, result, debug_build>>
    /\ UNCHANGED env

ShinySetPid == \E pid \in ShinyPids : ShinyCall("set_pid", pid, set_pid(pkm, pid))

\* pkm.trainer_id = t: the field is public and nothing else is touched
AssignTrainerId ==
    \E t \in ShinyTrainerIds : ShinyCall("trainer_id", t, [pkm EXCEPT !.trainer_id = t])

\* pkm.trainer_secret_id = s
AssignTrainerSecretId ==
    \E s \in ShinySecretIds :
        ShinyCall("trainer_secret_id", s, [pkm EXCEPT !.trainer_secret_id = s])

NextShiny ==
    ShinySetPid \/ AssignTrainerId \/ AssignTrainerSecretId \/ Serialize \/ Deserialize

SpecShiny == InitShiny /\ [][NextShiny]_vars

(***************************************************************************)
(* C11, C12: the shiny formula.                                             *)
(***************************************************************************)
BitOf(v, i) == (v \div (2 ^ i)) % 2

\* ((pid >> 16) XOR (pid & 0xFFFF)) XOR (tid XOR sid), bit by bit
ShinyValue(p) ==
    LET bit(i) == (BitOf(p.pid.hi, i) + BitOf(p.pid.lo, i)
                    + BitOf(p.trainer_id, i) + BitOf(p.trainer_secret_id, i)) % 2
        sum[i \in 0..16] == IF i = 16 THEN 0 ELSE (bit(i) * (2 ^ i)) + sum[i + 1]
    IN  sum[0]

\* C11: in every reachable state the cached is_shiny field equals
\* ((pid >> 16) XOR (pid & 0xFFFF)) XOR (tid XOR sid) < 8, also after
\* deserialize has populated the fields and after trainer_id or
\* trainer_secret_id has been assigned
C11_CachedShinyIsCurrent ==
    (result = "ok" /\ pkm # NoPkm) => (pkm.is_shiny = (ShinyValue(pkm) < 8))

\* C11, what the setters keep: right after set_pid the cached value is current
C11_SetPidRecomputes ==
    (op = "set_pid" /\ result = "ok") => (pkm.is_shiny = (ShinyValue(pkm) < 8))

\* C11: a shiny Pokemon (PID 0xE4080000, ids 12345 and 54321) has been read
\* back from its own record with the cached field saying it is not shiny
C11_DeserializeLeavesStaleShiny ==
    /\ op = "deserialize"
    /\ result = "ok"
    /\ pkm.pid = U32(\HE408, 0)
    /\ pkm.trainer_id = 12345 /\ pkm.trainer_secret_id = 54321
    /\ ShinyValue(pkm) < 8
    /\ ~pkm.is_shiny

IdAssigned == op \in {"trainer_id", "trainer_secret_id"}

\* every one of the low 3 bits of the shiny value differs from before
LowThreeBitsFlipped == (ShinyValue(pkm) % 8) = 7 - (ShinyValue(saved) % 8)

\* bits 3..15 of the shiny value are all zero
HighBitsClear(p) == ShinyValue(p) \div 8 = 0

\* C12 as stated: a change of tid or sid that flips the low 3 bits of
\* (pid ^ (pid >> 16)) ^ (tid ^ sid) toggles the result of is_shiny()
C12_Original ==
    (IdAssigned /\ LowThreeBitsFlipped) => (is_shiny(pkm) # is_shiny(saved))

\* C12 amended: a change of tid or sid toggles the result of is_shiny() exactly
\* when bits 3..15 of the value are all zero on one side of the change only; a
\* change that flips the low 3 bits and no other bit leaves the result as it was
C12_ShinyToggles ==
    IdAssigned =>
        /\ (is_shiny(pkm) # is_shiny(saved)) <=> (HighBitsClear(pkm) # HighBitsClear(saved))
        /\ (ShinyValue(pkm) \div 8 = ShinyValue(saved) \div 8) =>
                (is_shiny(pkm) = is_shiny(saved))

\* C12 witness: the trainer id of a shiny Pokemon went from 12345 to 12350,
\* which flips the low 3 bits of the value (0 to 7), and it is still shiny
C12_Witness ==
    /\ op = "trainer_id"
    /\ arg = 12350
    /\ saved.trainer_id = 12345
    /\ LowThreeBitsFlipped
    /\ ShinyValue(saved) = 0 /\ ShinyValue(pkm) = 7
    /\ is_shiny(saved) /\ is_shiny(pkm)


(***************************************************************************)
(* Specification of the locations a Gen 4 record carries: Pokemon met and   *)
(* hatched in Diamond/Pearl, Platinum and HeartGold/SoulSilver locations    *)
(* are serialized.                                                          *)
(***************************************************************************)
\* Mystery Zone, Battle Park (the last Diamond/Pearl location), the one after
\* it, Day-Care Couple
EggLocationIds == { 0, DP_LAST_LOCATION, DP_LAST_LOCATION + 1, 2000 }

\* Route 202, Battle Park, the one after it, Pokeathlon Dome, Faraway Place
MetLocationIds == { 16, DP_LAST_LOCATION, DP_LAST_LOCATION + 1, 224, GEN4_FARAWAY_PLACE }

\* HeartGold, Diamond, Platinum
LocationGames == { 7, 10, 12 }

InitLocation ==
    /\ pkm \in { [WellFormed(FALSE, party, U32(\H1234, \H5678), FALSE, FALSE, FALSE, FALSE)
                    EXCEPT !.egg_location = Gen4Loc(e), !.met_location = Gen4Loc(m),
                           !.origin_game = g] :
                    party \in BOOLEAN, e \in EggLocationIds, m \in MetLocationIds,
                    g \in LocationGames }
    /\ bytes = <<>>
    /\ op = "init"
    /\ arg = NoArg
    /\ result = "ok"
    /\ saved = NoPkm
    /\ debug_build \in BOOLEAN
    /\ steps = 0
    /\ InitEnv

NextLocation == Serialize

SpecLocation == InitLocation /\ [][NextLocation]_vars

CodecNames ==
    { <<>>, <<65>>, <<80, 105, 107, 97>>, <<80, 105, 107, 97, 99, 104, 117, 33>>,
      <<65, 66, 67, 68, 69, 70, 71, 72, 73, 74>>,
      <<233>>, <<128512>>, <<65, 66, 67, 68, 69, 70, 71, 72, 73, 128512>> }

InitNames ==
    /\ pkm = NoPkm
    /\ bytes = <<>>
    /\ op = "init"
    /\ arg \in CodecNames
    /\ result = Ok(<<>>)
    /\ saved = "none"
    /\ debug_build \in BOOLEAN
    /\ steps = 0
    /\ InitEnv

\* result = Pokemon::encode_name_gen4(&arg)
EncodeNameGen4 ==
    /\ op = "init"
    /\ op' = "encode_name_gen4"
    /\ saved' = "gen4"
    /\ result' = encode_name_gen4(arg)
    /\ bytes' = encode_name_gen4(arg).value
    /\ steps' = steps + 1
    /\ UNCHANGED <<pkm, arg, debug_build>>
    /\ UNCHANGED env

\* bytes = Pokemon::encode_name_gen5(&arg)
EncodeNameGen5 ==
    /\ op = "init"
    /\ op' = "encode_name_gen5"
    /\ saved' = "gen5"
    /\ result' = Ok(encode_name_gen5(arg))
    /\ bytes' = encode_name_gen5(arg)
    /\ steps' = steps + 1
    /\ UNCHANGED <<pkm, arg, debug_build>>
    /\ UNCHANGED env

\* encoded_name.resize(0x5E - 0x48, 0), as serialize does for the nickname
ResizeToField ==
    /\ op \in {"encode_name_gen4", "encode_name_gen5"}
    /\ result.ok
    /\ op' = "resize"
    /\ bytes' = Resize(bytes, NAME_FIELD_LEN)
    /\ steps' = steps + 1
    /\ UNCHANGED <<pkm, arg, result, saved, debug_build>>
    /\ UNCHANGED env

\* result = Pokemon::decode_name_gen4(&bytes)
DecodeNameGen4 ==
    /\ saved = "gen4"
    /\ op \in {"encode_name_gen4", "resize"}
    /\ result.ok
    /\ op' = "decode_name_gen4"
    /\ result' = decode_name_gen4(bytes)
    /\ steps' = steps + 1
    /\ UNCHANGED <<pkm, bytes, arg, saved, debug_build>>
    /\ UNCHANGED env

\* result = Pokemon::decode_name_gen5(&bytes)
DecodeNameGen5 ==
    /\ saved = "gen5"
    /\ op \in {"encode_name_gen5", "resize"}
    /\ op' = "decode_name_gen5"
    /\ result' = decode_name_gen5(bytes)
    /\ steps' = steps + 1
    /\ UNCHANGED <<pkm, bytes, arg, saved, debug_build>>
    /\ UNCHANGED env

NextNames ==
    EncodeNameGen4 \/ EncodeNameGen5 \/ ResizeToField \/ DecodeNameGen4 \/ DecodeNameGen5

SpecNames == InitNames /\ [][NextNames]_vars

(***************************************************************************)
(* C14: the name round trip.                                                *)
(***************************************************************************)
\* the bytes end in FF FF
EndsInTerminator(b) == Len(b) >= 2 /\ b[Len(b) - 1] = 255 /\ b[Len(b)] = 255

\* the characters of the name are in the Basic Multilingual Plane, so that
\* ten of them and the terminator fit the 22 bytes of the field
FitsField(name) == \A i \in 1..Len(name) : name[i] < 65536

\* C14: for every name of 0 to 10 characters the format can encode, the
\* encoder produces the code units followed by FF FF (2n+2 bytes in the Gen 4
\* map) and decoding those bytes, also after zero-padding to the field
\* length, returns the name; for the Gen 4 codec and for the Gen 5 codec
C14_NameRoundTrip ==
    /\ (op = "encode_name_gen4" /\ result.ok) =>
            (Len(bytes) = (2 * Len(arg)) + 2 /\ EndsInTerminator(bytes))
    /\ op = "encode_name_gen5" => EndsInTerminator(bytes)
    /\ (op \in {"decode_name_gen4", "decode_name_gen5"} /\ FitsField(arg)) =>
            result = Ok(arg)

\* C14, the part the codecs keep: every Gen 4 name, and every Gen 5 name of at
\* least one character, comes back
C14_NonEmptyNamesRoundTrip ==
    /\ (op = "encode_name_gen4" /\ result.ok) =>
            (Len(bytes) = (2 * Len(arg)) + 2 /\ EndsInTerminator(bytes))
    /\ op = "encode_name_gen5" => EndsInTerminator(bytes)
    /\ (op = "decode_name_gen4" /\ FitsField(arg)) => result = Ok(arg)
    /\ (op = "decode_name_gen5" /\ FitsField(arg) /\ Len(arg) > 0) => result = Ok(arg)

\* C14: the empty name was encoded by the Gen 5 encoder as FF FF and the
\* Gen 5 decoder has returned an error for these bytes
C14_EmptyGen5NameFails ==
    /\ op = "decode_name_gen5"
    /\ arg = <<>>
    /\ bytes = <<255, 255>>
    /\ ~result.ok

\* C14: "Pikachu!" took 18 bytes in the Gen 4 map and came back from the
\* zero-padded field
C14_PikachuRoundTrip ==
    /\ op = "decode_name_gen4"
    /\ arg = <<80, 105, 107, 97, 99, 104, 117, 33>>
    /\ Len(bytes) = NAME_FIELD_LEN
    /\ bytes[17] = 255 /\ bytes[18] = 255 /\ bytes[19] = 0
    /\ result = Ok(arg)


(***************************************************************************)
(* C16: a record with an id that no enumeration has.                        *)
(***************************************************************************)
\* the record at hand has an accepted length and an invalid id in one of its
\* fields
InvalidIdRecord == Len(bytes) \in AcceptedLengths /\ ~FieldsAreValid(bytes)

\* C16: when a correctly sized record carries an invalid id (species,
\* ability, move, item, language, game, ball, gender, location), the codec
\* pass fails as a whole and the failure is returned as an error value: no
\* Pokemon is produced and no undefined state is entered, in debug and in
\* release builds
C16_InvalidIdIsErrorValue ==
    (op = "deserialize" /\ InvalidIdRecord) => (result = "err" /\ pkm = NoPkm)

\* C16, what the code does: the call never returns normally on such a record
C16_InvalidIdNeverDecodes ==
    (op = "deserialize" /\ InvalidIdRecord) =>
        (IF debug_build THEN result = "panic" ELSE result \in {"panic", "ub"})

\* C16: a release build has run into unreachable_unchecked() on a record
\* whose ability id is 255
C16_ReleaseBuildIsUndefined ==
    /\ op = "deserialize"
    /\ ~debug_build
    /\ Len(bytes) = GEN4_PKM_LEN
    /\ At(bytes, \H15) = 255
    /\ result = "ub"


(***************************************************************************)
(* Base64 with the URL-safe alphabet and canonical padding (the engine      *)
(* URL_SAFE of gts.rs and http_server.rs).  A text is a sequence of         *)
(* characters; a character is its code.                                     *)
(***************************************************************************)
BASE64_PAD == 61    \* '='

\* the value of a character of the alphabet A-Z a-z 0-9 - _, or -1
Base64Value(c) ==
    IF c \in 65..90 THEN c - 65
    ELSE IF c \in 97..122 THEN c - 71
    ELSE IF c \in 48..57 THEN c + 4
    ELSE IF c = 45 THEN 62
    ELSE IF c = 95 THEN 63
    ELSE -1

Base64Char(v) ==
    IF v < 26 THEN v + 65
    ELSE IF v < 52 THEN v + 71
    ELSE IF v < 62 THEN v - 4
    ELSE IF v = 62 THEN 45
    ELSE 95

\* URL_SAFE.encode(data)
Base64Encode(data) ==
    LET n == Len(data)
        byte(i) == IF i <= n THEN data[i] ELSE 0
        sextet(g, k) ==
            LET b0 == byte((3 * g) + 1)
                b1 == byte((3 * g) + 2)
                b2 == byte((3 * g) + 3)
            IN  CASE k = 0 -> b0 \div 4
                  [] k = 1 -> ((b0 % 4) * 16) + (b1 \div 16)
                  [] k = 2 -> ((b1 % 16) * 4) + (b2 \div 64)
                  [] OTHER -> b2 % 64
    IN  [i \in 1..(4 * ((n + 2) \div 3)) |->
            LET g == (i - 1) \div 4
                k == (i - 1) % 4
            IN  IF k >= 2 /\ (3 * g) + k > n THEN BASE64_PAD ELSE Base64Char(sextet(g, k))]

\* URL_SAFE.decode(text): Ok(bytes); Err for a length that is not a multiple
\* of 4, a character outside the alphabet, padding anywhere but in the last
\* one or two places, and non-zero bits under the padding
Base64Decode(text) ==
    LET n == Len(text)
        pad == IF n >= 2 /\ text[n] = BASE64_PAD /\ text[n - 1] = BASE64_PAD THEN 2
               ELSE IF n >= 1 /\ text[n] = BASE64_PAD THEN 1
               ELSE 0
        v(i) == Base64Value(text[i])
        valid == /\ n % 4 = 0
                 /\ \A i \in 1..(n - pad) : v(i) # -1
                 /\ (pad = 1 => v(n - 1) % 4 = 0)
                 /\ (pad = 2 => v(n - 2) % 16 = 0)
        byte(j) ==
            LET g == (j - 1) \div 3
                k == (j - 1) % 3
                a == v((4 * g) + k + 1)
                b == v((4 * g) + k + 2)
            IN  CASE k = 0 -> (a * 4) + (b \div 16)
                  [] k = 1 -> ((a % 16) * 16) + (b \div 4)
                  [] OTHER -> ((a % 4) * 64) + b
    IN  IF ~valid THEN Err ELSE Ok([j \in 1..((3 * (n \div 4)) - pad) |-> byte(j)])

(***************************************************************************)
(* GTS deposits (gts.rs, GTSDeposit).                                       *)
(***************************************************************************)
GTS_XOR_GEN4 == U32(\H4A3B, \H2C1D)     \* 0x4A3B2C1D
GTS_XOR_GEN5 == U32(\H2DB8, \H42B2)     \* 0x2DB842B2
STREAM_MUL == 69                         \* 0x45
STREAM_ADD == 4369                       \* 0x1111
STREAM_MASK_HI == 32768                  \* & 0x7FFFFFFF keeps 15 bits of the upper half
GEN4_DEPOSIT_END == 244                  \* 0xF4
GEN5_DEPOSIT_PKM_START == 12             \* 0x0C
GEN5_DEPOSIT_PKM_END == 232              \* 0xE8

U32Xor(x, y) == U32(BitXor(x.hi, y.hi, 16), BitXor(x.lo, y.lo, 16))

\* u32::from_be_bytes(b[off..off + 4])
ReadU32BE(b, off) ==
    U32((At(b, off) * 256) + At(b, off + 1), (At(b, off + 2) * 256) + At(b, off + 3))

\* state.wrapping_mul(0x45)
StreamWrappingMul(state) ==
    LET lo == state.lo * STREAM_MUL
    IN  U32(((state.hi * STREAM_MUL) + (lo \div U16)) % U16, lo % U16)

\* w + 0x1111 exceeds u32::MAX
StreamAddOverflows(w) == w.hi = U16 - 1 /\ w.lo + STREAM_ADD >= U16

\* (w + 0x1111) & 0x7FFFFFFF, the addition wrapping
StreamAddMasked(w) ==
    IF w.lo + STREAM_ADD >= U16
    THEN U32(((w.hi + 1) % U16) % STREAM_MASK_HI, (w.lo + STREAM_ADD) % U16)
    ELSE U32(w.hi % STREAM_MASK_HI, w.lo + STREAM_ADD)

\* One pass of the loop body of decrypt_stream_cipher_data on byte i.  The
\* addition is a checked `+`: with overflow checks it panics when the sum
\* exceeds u32::MAX, without them it wraps.
StreamByte(data, i, state, checked) ==
    LET w == StreamWrappingMul(state)
        next == StreamAddMasked(w)
    IN  IF checked /\ StreamAddOverflows(w)
        THEN [panic |-> TRUE, data |-> <<>>, state |-> state]
        ELSE [panic |-> FALSE, data |-> <<BitXor(data[i], next.hi % 256, 8)>>, state |-> next]

\* the loop over the bytes from..to, in ascending order (the range is halved
\* so that the evaluation stays shallow)
RECURSIVE StreamRange(_, _, _, _, _)
StreamRange(data, from, to, state, checked) ==
    IF from > to THEN [panic |-> FALSE, data |-> <<>>, state |-> state]
    ELSE IF from = to THEN StreamByte(data, from, state, checked)
    ELSE LET mid == (from + to) \div 2
             left == StreamRange(data, from, mid, state, checked)
         IN  IF left.panic THEN left
             ELSE LET right == StreamRange(data, mid + 1, to, left.state, checked)
                  IN  [panic |-> right.panic,
                       data |-> left.data \o right.data,
                       state |-> right.state]

\* decrypt_stream_cipher_data(encrypted_data, state): [panic, data]
decrypt_stream_cipher_data(data, state, checked) ==
    LET r == StreamRange(data, 1, Len(data), state, checked)
    IN  [panic |-> r.panic, data |-> IF r.panic THEN data ELSE r.data]

\* gts_checksum | gts_checksum << 16
StreamKey(gts_checksum) == U32(BitOr(gts_checksum.hi, gts_checksum.lo, 16), gts_checksum.lo)

Panicked == {[outcome |-> "panic", pkm |-> NoPkm]}

\* The fields from_base64 fills in from the decoded bytes (at least 0xF4 of
\* them for Gen 4, 0xE8 for Gen 5): the GTS checksum, the profile id and the
\* record handed to to_decrypted_data; panic when the stream cipher's
\* addition overflows under overflow checks.
DepositParts(data, is_gen5, debug) ==
    LET gts_checksum ==
            U32Xor(ReadU32BE(data, 0), IF is_gen5 THEN GTS_XOR_GEN5 ELSE GTS_XOR_GEN4)
        stream == IF ~is_gen5
                  THEN decrypt_stream_cipher_data(Slice(data, \H04, GEN4_DEPOSIT_END),
                                                  StreamKey(gts_checksum), debug)
                  ELSE [panic |-> FALSE, data |-> data]
        pkm_offset == IF ~is_gen5 THEN \H04 ELSE GEN5_DEPOSIT_PKM_START
        pkm_end == IF ~is_gen5 THEN \HF0 ELSE GEN5_DEPOSIT_PKM_END
    IN  IF stream.panic
        THEN [panic |-> TRUE, gts_checksum |-> gts_checksum, profile_id |-> U32(0, 0),
              record |-> <<>>]
        ELSE [panic |-> FALSE, gts_checksum |-> gts_checksum,
              profile_id |-> ReadU32(stream.data, 0),
              record |-> Slice(stream.data, pkm_offset, pkm_end)]

\* GTSDeposit::from_base64(base64_data, is_gen5): the outcomes of the call.
\* "err" is the returned Err for text that is not Base64; "panic" is a slice
\* index out of range, an arithmetic overflow under overflow checks, or a
\* panic of deserialize; "ub" and "ok" are the outcomes of deserialize.
from_base64(text, is_gen5, debug) ==
    LET decoded == Base64Decode(text)
        data == decoded.value
    IN  IF ~decoded.ok THEN {[outcome |-> "err", pkm |-> NoPkm]}
        ELSE IF Len(data) < 4 THEN Panicked
        ELSE IF ~is_gen5 /\ Len(data) < GEN4_DEPOSIT_END THEN Panicked
        ELSE IF is_gen5 /\ Len(data) < GEN5_DEPOSIT_PKM_END THEN Panicked
        ELSE LET parts == DepositParts(data, is_gen5, debug)
             IN  IF parts.panic THEN Panicked
                 ELSE LET plain == to_decrypted_data(parts.record, debug)
                      IN  IF plain.panic THEN Panicked
                          ELSE deserialize(plain.data, debug)


(***************************************************************************)
(* Files and the clock (pokemon.rs, save / save_file_exists / load).  A     *)
(* path and a file name are texts: sequences of character codes.            *)
(***************************************************************************)
StartsWith(s, prefix) == Len(s) >= Len(prefix) /\ SubSeq(s, 1, Len(prefix)) = prefix

EndsWith(s, suffix) ==
    Len(s) >= Len(suffix) /\ SubSeq(s, (Len(s) - Len(suffix)) + 1, Len(s)) = suffix

DEPOSIT_DIR == <<112, 111, 107, 101, 109, 111, 110, 47>>      \* "pokemon/"
EXT_PK4 == <<112, 107, 52>>                                        \* "pk4"
EXT_PK5 == <<112, 107, 53>>                                        \* "pk5"
EXT_PKM == <<112, 107, 109>>                                       \* "pkm"
LOG_PATH == <<114, 101, 99, 118, 95, 112, 107, 109, 46, 108, 111, 103>>    \* "recv_pkm.log"

\* the names of the species list, on the species the model draws from
SPECIES_NAME(id) ==
    CASE id = 1 -> <<66, 117, 108, 98, 97, 115, 97, 117, 114>>                      \* "Bulbasaur"
      [] id = 25 -> <<80, 105, 107, 97, 99, 104, 117>>                           \* "Pikachu"
      [] id = 35 -> <<67, 108, 101, 102, 97, 105, 114, 121>>                       \* "Clefairy"
      [] id = 129 -> <<77, 97, 103, 105, 107, 97, 114, 112>>                       \* "Magikarp"
      [] id = 285 -> <<83, 104, 114, 111, 111, 109, 105, 115, 104>>                \* "Shroomish"
      [] id = 290 -> <<78, 105, 110, 99, 97, 100, 97>>                          \* "Nincada"
      [] id = 494 -> <<86, 105, 99, 116, 105, 110, 105>>                         \* "Victini"

TwoDigits(n) == <<48 + (n \div 10), 48 + (n % 10)>>

\* LocalTime::now().format("%Y-%m-%d_%H-%M-%S") at second `now` after
\* 2012-03-04 05:06:00 local time (now < 60)
FormatTime(now) == <<50, 48, 49, 50, 45, 48, 51, 45, 48, 52, 95, 48, 53, 45, 48, 54, 45>> \o TwoDigits(now)

\* fs::write: the file at path holds content afterwards, created or truncated
WriteFile(fs, path, content) ==
    [p \in (DOMAIN fs) \cup {path} |-> IF p = path THEN content ELSE fs[p]]

\* the names of the entries of the deposit directory: fs::read_dir
DirEntries(fs) ==
    { SubSeq(p, Len(DEPOSIT_DIR) + 1, Len(p)) : p \in { q \in DOMAIN fs : StartsWith(q, DEPOSIT_DIR) } }

\* a file whose name has the base name and the extension, and nothing between
SaveFileExistsExactName(data, fs, base_name, extension) ==
    \E file_name \in DirEntries(fs) :
        /\ file_name = base_name \o <<46>> \o extension
        /\ fs[DEPOSIT_DIR \o file_name] = data

\* save_file_exists(data, path, base_name, extension): some entry whose name
\* starts with the base name and ends with the extension holds the data
save_file_exists(data, fs, base_name, extension) ==
    \E file_name \in DirEntries(fs) :
        /\ StartsWith(file_name, base_name)
        /\ EndsWith(file_name, extension)
        /\ fs[DEPOSIT_DIR \o file_name] = data

\* format!("{}_{}{}", species.name(), name, shiny_mark)
BaseName(p) == SPECIES_NAME(p.species) \o <<95>> \o p.name \o (IF is_shiny(p) THEN <<33>> ELSE <<>>)

SaveExtension(p) == IF p.is_gen5 THEN EXT_PK5 ELSE EXT_PK4

\* dir_path.join(format!("{}_{}.{}", base_name, current_time_str, extension))
SavePath(p, now) ==
    DEPOSIT_DIR \o BaseName(p) \o <<95>> \o FormatTime(now) \o <<46>> \o SaveExtension(p)

\* pokemon.save(None, None) at time now: [returned, files].  disk_ok = FALSE
\* is an I/O error of the directory (create_dir_all, read_dir), returned as
\* Err before anything is written; "abort" is the failed should_be_ok! of
\* serialize.
save(p, fs, now, disk_ok) ==
    IF ~disk_ok THEN [returned |-> "Err", files |-> fs]
    ELSE IF SerializeFails(p) THEN [returned |-> "abort", files |-> fs]
    ELSE LET data == serialize(p)
         IN  IF save_file_exists(data, fs, BaseName(p), SaveExtension(p))
             THEN [returned |-> "Ok(false)", files |-> fs]
             ELSE [returned |-> "Ok(true)", files |-> WriteFile(fs, SavePath(p, now), data)]


(***************************************************************************)
(* The post.asp endpoint (http_server.rs, post_endpoint!).                  *)
(***************************************************************************)
RESPONSE_POST == <<12, 0>>      \* b"\x0c\x00"

\* format!("{:?}", pokemon): the text that shows every field of the Pokemon
DebugText(p) == [debug |-> p]

\* The handler after GTSDeposit::from_base64 has had the outcome r, with the
\* files fs at time now: the set of [result, body, pkm, returned, after_save,
\* files] it can end in.  An Err of from_base64 is answered with 0C 00; a
\* panic or undefined behaviour inside it ends the handler without a
\* response; an Err of save is the panic of .expect(); after save the Debug
\* text goes to recv_pkm.log.
post_endpoint(r, fs, now, disk_ok, debug) ==
    LET stopped(how, returned) ==
            [result |-> how, body |-> <<>>, pkm |-> r.pkm, returned |-> returned,
             after_save |-> fs, files |-> fs]
    IN  IF r.outcome = "err"
        THEN { [result |-> "ok", body |-> RESPONSE_POST, pkm |-> NoPkm, returned |-> "none",
                after_save |-> fs, files |-> fs] }
        ELSE IF r.outcome # "ok" THEN { stopped(r.outcome, "none") }
        ELSE LET s == save(r.pkm, fs, now, disk_ok)
             IN  IF s.returned = "Err" THEN { stopped("panic", "Err") }
                 ELSE IF s.returned = "abort"
                 THEN { stopped(how, "none") : how \in (IF debug THEN {"panic"} ELSE {"panic", "ub"}) }
                 ELSE { [result |-> "ok", body |-> RESPONSE_POST, pkm |-> r.pkm,
                         returned |-> s.returned, after_save |-> s.files,
                         files |-> WriteFile(s.files, LOG_PATH, DebugText(r.pkm))] }

(***************************************************************************)
(* Specification of deposits: the game sends post.asp requests, the clock   *)
(* advances, and the deposit directory may hold files from before.          *)
(***************************************************************************)
MaxDeposits == 2

MaxClock == 1

\* the first four bytes of a deposit and the profile id of the sender
DEPOSIT_CHECKSUM == <<\H12, \H34, \H56, \H78>>
DEPOSIT_PROFILE == <<1, 2, 3, 4>>

\* what a Gen 4 game sends for a record: the checksum bytes, then the profile
\* id and the encrypted record under the stream cipher keyed by the checksum
GameDepositGen4(record) ==
    DEPOSIT_CHECKSUM
        \o decrypt_stream_cipher_data(
                DEPOSIT_PROFILE \o to_encrypted_data(record, FALSE).data,
                StreamKey(U32Xor(ReadU32BE(DEPOSIT_CHECKSUM, 0), GTS_XOR_GEN4)), FALSE).data

\* what a Gen 5 game sends: twelve bytes, the encrypted record, the GTS data
GameDepositGen5(record) ==
    DEPOSIT_CHECKSUM \o DEPOSIT_PROFILE \o Zeros(4) \o to_encrypted_data(record, FALSE).data
        \o Zeros(\H3C)

\* a Pikachu "Pika", the same holding another item, a shiny one, a Victini
DepositPika == WellFormed(FALSE, TRUE, U32(\H1234, \H5678), FALSE, FALSE, FALSE, FALSE)
DepositPikaOtherItem == [DepositPika EXCEPT !.held_item = 2]
DepositPikaShiny == WellFormed(FALSE, TRUE, U32(\HE408, 0), FALSE, FALSE, FALSE, FALSE)
DepositVictini == WellFormed(TRUE, TRUE, U32(\H1234, \H5678), FALSE, FALSE, FALSE, FALSE)

\* text that is not Base64, Base64 of 3 bytes and of 8 bytes
TextNotBase64 == <<33, 33, 33, 33>>
TextOfThreeBytes == Base64Encode(<<1, 2, 3>>)
TextOfEightBytes == Base64Encode(Zeros(8))

\* a deposit whose record has the species id 0xFF19
TextOfInvalidSpecies ==
    Base64Encode(GameDepositGen4([serialize(DepositPika) EXCEPT ![\H09 + 1] = \HFF]))

TextOfDeposit(p) ==
    Base64Encode(IF p.is_gen5 THEN GameDepositGen5(serialize(p)) ELSE GameDepositGen4(serialize(p)))

\* the requests: the generation of the endpoint and the `data` parameter
DepositRequests ==
    { [gen |-> 4, data |-> t] :
        t \in { TextNotBase64, TextOfThreeBytes, TextOfEightBytes, TextOfInvalidSpecies,
                TextOfDeposit(DepositPika), TextOfDeposit(DepositPikaOtherItem),
                TextOfDeposit(DepositPikaShiny) } }
    \cup { [gen |-> 5, data |-> t] :
             t \in { TextNotBase64, TextOfEightBytes, TextOfDeposit(DepositVictini) } }

\* GTSDeposit::from_base64 on every request, for both builds
DepositOutcomes ==
    [req \in DepositRequests, debug \in BOOLEAN |-> from_base64(req.data, req.gen = 5, debug)]

\* the bytes save writes for a deposited Pokemon
DepositedBytes(p) ==
    serialize((CHOOSE r \in deserialize(serialize(p), FALSE) : r.outcome = "ok").pkm)

\* the deposit directory at the start: empty; a copy of the Pikachu the
\* trainer keeps as Pikachu_Pika.pkm; a copy named Pikachu_Pika_old.pk4
InitialFiles ==
    { NoFiles,
      WriteFile(NoFiles, DEPOSIT_DIR \o <<80, 105, 107, 97, 99, 104, 117, 95, 80, 105, 107, 97, 46, 112, 107, 109>>, DepositedBytes(DepositPika)),
      WriteFile(NoFiles, DEPOSIT_DIR \o <<80, 105, 107, 97, 99, 104, 117, 95, 80, 105, 107, 97, 95, 111, 108, 100, 46, 112, 107, 52>>, DepositedBytes(DepositPika)) }

NoSave == [before |-> NoFiles, after_save |-> NoFiles, returned |-> "none"]

InitDeposit ==
    /\ pkm = NoPkm
    /\ bytes = <<>>
    /\ op = "init"
    /\ arg = [gen |-> 0, data |-> <<>>, disk_ok |-> TRUE]
    /\ result = "ok"
    /\ saved = NoSave
    /\ debug_build \in BOOLEAN
    /\ steps = 0
    /\ files \in InitialFiles
    /\ clock = 0

\* one request to post.asp, handled to its end
Post ==
    /\ result = "ok"
    /\ steps < MaxDeposits
    /\ \E req \in DepositRequests, disk_ok \in BOOLEAN :
        \E r \in DepositOutcomes[req, debug_build] :
            \E e \in post_endpoint(r, files, clock, disk_ok, debug_build) :
                /\ arg' = [gen |-> req.gen, data |-> req.data, disk_ok |-> disk_ok]
                /\ result' = e.result
                /\ bytes' = e.body
                /\ pkm' = e.pkm
                /\ saved' = [before |-> files, after_save |-> e.after_save,
                             returned |-> e.returned]
                /\ files' = e.files
    /\ op' = "post"
    /\ steps' = steps + 1
    /\ UNCHANGED <<debug_build, clock>>

\* a second passes
Tick ==
    /\ result = "ok"
    /\ clock < MaxClock
    /\ clock' = clock + 1
    /\ UNCHANGED <<pkm, bytes, op, arg, result, saved, debug_build, steps, files>>

NextDeposit == Post \/ Tick

SpecDeposit == InitDeposit /\ [][NextDeposit]_vars


(***************************************************************************)
(* C15: post.asp answers every request.                                     *)
(***************************************************************************)
\* C15: for every value of the `data` parameter (text that is not Base64,
\* Base64 of fewer bytes than a deposit, a deposit whose Pokemon does not
\* decode, a valid deposit) and whether or not saving succeeds, the handler
\* completes and responds 0C 00
C15_PostAlwaysResponds == op = "post" => (result = "ok" /\ bytes = <<12, 0>>)

\* C15, what the handler keeps: text that is not Base64 is answered with
\* 0C 00 and nothing is written, and so is every deposit that decodes and is
\* saved or found to be a duplicate
C15_RespondsWhenDecodedAndSaved ==
    op = "post" =>
        /\ ~Base64Decode(arg.data).ok => (result = "ok" /\ bytes = <<12, 0>> /\ files = saved.before)
        /\ saved.returned \in {"Ok(true)", "Ok(false)"} => (result = "ok" /\ bytes = <<12, 0>>)
        /\ result # "ok" => bytes = <<>>

\* C15: the Base64 text of 3 bytes has ended the handler in a panic, with no
\* response and in either build
C15_ShortDepositPanics ==
    /\ op = "post"
    /\ arg.data = TextOfThreeBytes
    /\ Base64Decode(arg.data) = Ok(<<1, 2, 3>>)
    /\ result = "panic"
    /\ bytes = <<>>

\* C15: a deposit that decodes has ended the handler in a panic because save
\* returned an error
C15_FailedSavePanics ==
    /\ op = "post"
    /\ ~arg.disk_ok
    /\ saved.returned = "Err"
    /\ result = "panic"

(***************************************************************************)
(* C18, C19: what save writes.                                              *)
(***************************************************************************)
\* save was called on the deposited Pokemon and the disk could be read
SaveCalled == op = "post" /\ arg.disk_ok /\ saved.returned # "none"

\* some file of the deposit directory whose name starts with
\* <species>_<nickname>[!] (and, with_extension, ends with pk4 / pk5) holds
\* the bytes of the Pokemon
DuplicateExists(fs, p, with_extension) ==
    \E name \in DirEntries(fs) :
        /\ StartsWith(name, BaseName(p))
        /\ with_extension => EndsWith(name, SaveExtension(p))
        /\ fs[DEPOSIT_DIR \o name] = serialize(p)

SaveSkipped ==
    /\ saved.after_save = saved.before
    /\ saved.returned = "Ok(false)"
    /\ bytes = <<12, 0>>

\* C18 as stated: when save is called and any file of the deposit directory
\* whose name starts with <species>_<nickname>[!] holds identical bytes, no
\* file is created or modified, save returns Ok(false) and post.asp responds
\* 0C 00
C18_Original == (SaveCalled /\ DuplicateExists(saved.before, pkm, FALSE)) => SaveSkipped

\* C18 amended: the same for any file whose name starts with
\* <species>_<nickname>[!] and ends with the extension of the save (pk4 for
\* Gen 4, pk5 for Gen 5)
C18_DuplicateSkipsWrite == (SaveCalled /\ DuplicateExists(saved.before, pkm, TRUE)) => SaveSkipped

\* C18 witness: the Pikachu was deposited while Pikachu_Pika_old.pk4 held its
\* bytes: the directory is as before and save returned Ok(false)
C18_Witness ==
    /\ SaveCalled
    /\ arg.data = TextOfDeposit(DepositPika)
    /\ DuplicateExists(saved.before, pkm, TRUE)
    /\ DOMAIN saved.before # {}
    /\ SaveSkipped

\* C19: each deposit that is not a duplicate has added exactly one file to the
\* deposit directory, and every file that was there is still there with its
\* content, also for two different Pokemon of the same species, nickname and
\* shininess within one second
C19_DepositAddsOneFile ==
    (op = "post" /\ saved.returned = "Ok(true)") =>
        /\ Cardinality(DirEntries(saved.after_save)) = Cardinality(DirEntries(saved.before)) + 1
        /\ \A p \in DOMAIN saved.before :
              p \in DOMAIN saved.after_save /\ saved.after_save[p] = saved.before[p]

\* C19, what save keeps: a deposit whose file name is not taken adds one file
\* and touches no other
C19_FreeNameAddsOneFile ==
    (op = "post" /\ saved.returned = "Ok(true)"
        /\ \E now \in 0..MaxClock : /\ SavePath(pkm, now) \in DOMAIN saved.after_save
                                    /\ SavePath(pkm, now) \notin DOMAIN saved.before) =>
        /\ Cardinality(DirEntries(saved.after_save)) = Cardinality(DirEntries(saved.before)) + 1
        /\ \A p \in DOMAIN saved.before :
              p \in DOMAIN saved.after_save /\ saved.after_save[p] = saved.before[p]

\* C19: the Pikachu holding the other item was saved in the second in which
\* the first Pikachu had been saved: same file name, and the bytes of the
\* first are gone
C19_SameSecondOverwrites ==
    /\ op = "post"
    /\ saved.returned = "Ok(true)"
    /\ arg.data = TextOfDeposit(DepositPikaOtherItem)
    /\ DirEntries(saved.after_save) = DirEntries(saved.before)
    /\ \E name \in DirEntries(saved.before) :
          /\ saved.before[DEPOSIT_DIR \o name] = DepositedBytes(DepositPika)
          /\ saved.after_save[DEPOSIT_DIR \o name] = DepositedBytes(DepositPikaOtherItem)
    /\ ~\E name \in DirEntries(saved.after_save) :
            saved.after_save[DEPOSIT_DIR \o name] = DepositedBytes(DepositPika)


(***************************************************************************)
(* Receptions (gts.rs, GTSData / GTSReception): what the host sends to the  *)
(* game for a Pokemon.                                                      *)
(***************************************************************************)
TRAINER_CLASS_COUNT == 16

GTS_DATA_LEN_GEN4 == 56

GTS_DATA_LEN_GEN5 == 60

GEN5_RECEPTION_PAD == 16

GTS_NAME_FIELD_LEN == 16

GENDERLESS == 2

REQ_MIN_LVL == 1

REQ_MAX_LVL == 100

LAST_GEN4_REQUEST == 493

LAST_GEN5_REQUEST == 649

GAME_WHITE2 == 22

GAME_BLACK2 == 23

SECONDS_PER_DAY_OVER_128 == 675

\* days from 1970-01-01 to the date <<y, m, d>> of the civil calendar
DaysFromCivil(date) ==
    LET y == IF date[2] <= 2 THEN date[1] - 1 ELSE date[1]
        era == y \div 400
        yoe == y - (era * 400)
        mp == (date[2] + 9) % 12
        doy == (((153 * mp) + 2) \div 5) + (date[3] - 1)
        doe == (yoe * 365) + (yoe \div 4) - (yoe \div 100) + doy
    IN  ((era * 146097) + doe) - 719468

\* i64::to_be_bytes of a non-negative number below 2^31
I64BE(n) ==
    <<0, 0, 0, 0, n \div 16777216, (n \div 65536) % 256, (n \div 256) % 256, n % 256>>

\* NaiveDateTime::from(date).and_utc().timestamp().to_be_bytes(): midnight of
\* the date in seconds, days * 86400, kept in 16-bit limbs
MidnightTimestampBE(date) ==
    LET v == DaysFromCivil(date) * SECONDS_PER_DAY_OVER_128
        lo == (v % 512) * 128
        mid == (v \div 512) % U16
        hi == v \div (512 * U16)
    IN  <<0, 0, hi \div 256, hi % 256, mid \div 256, mid % 256, lo \div 256, lo % 256>>

\* LocalTime::now().naive_utc() in seconds: second `now` after
\* 2012-03-04 05:06:00 UTC
NowTimestamp(now) == (DaysFromCivil(<<2012, 3, 4>>) * 86400) + 18360 + now

\* the place GTSData::from_pokemon gives the trainer
GeonetPlace(p) ==
    IF ~p.is_gen5 THEN "Japan / Hokkaido (Sapporo)"
    ELSE IF p.origin_game \in {GAME_WHITE2, GAME_BLACK2} THEN "United States of America / New Jersey"
    ELSE "United States of America / New York"

\* the Geonet lists are data files: the indices they give to the three places
\* are taken from these candidate tables
GeonetTables ==
    { [place \in {"Japan / Hokkaido (Sapporo)", "United States of America / New Jersey",
                  "United States of America / New York"} |->
          IF place = "Japan / Hokkaido (Sapporo)" THEN <<j, 2>> ELSE <<220, IF place = "United States of America / New York" THEN 35 ELSE 33>>]
      : j \in {103, 105} }

\* country_code(country, region) under the table geo
country_code(geo, place) == geo[place]

\* GTSData::from_pokemon(pokemon), with the random and the clock values given
GTSDataFromPokemon(p, profile_id, req_pkm_id, now) ==
    [pkm_id |-> p.species, gender |-> p.gender, lvl |-> p.level,
     req_pkm_id |-> req_pkm_id, req_gender |-> GENDERLESS,
     req_min_lvl |-> REQ_MIN_LVL, req_max_lvl |-> REQ_MAX_LVL,
     trainer_gender |-> p.trainer_gender,
     deposited_time |-> p.met_date, traded_time |-> NowTimestamp(now),
     profile_id |-> profile_id, trainer_id |-> p.trainer_id,
     trainer_secret_id |-> p.trainer_secret_id, trainer_name |-> p.trainer_name,
     place |-> GeonetPlace(p),
     trainer_class |-> (BitXor(p.trainer_id, p.trainer_secret_id, 16) % 256) % TRAINER_CLASS_COUNT,
     is_exchanged |-> TRUE, game |-> p.origin_game, language |-> p.language,
     unity_tower_floors |-> IF p.is_gen5 THEN 0 ELSE None]

\* the bytes of data with those from offset off replaced by part
Overlay(data, off, part) ==
    [i \in 1..Len(data) |-> IF i > off /\ i <= off + Len(part) THEN part[i - off] ELSE data[i]]

\* GTSData::serialize fails: the Gen 4 trainer name has a character the
\* Gen 4 table lacks (the .expect panics)
GTSDataSerializeFails(g, is_gen5) == ~is_gen5 /\ ~encode_name_gen4(g.trainer_name).ok

\* GTSData::serialize(is_gen5)
GTSDataSerialize(g, is_gen5, geo) ==
    LET extra_offset == IF is_gen5 THEN 2 ELSE 0
        code == country_code(geo, g.place)
        head == LE16(g.pkm_id) \o <<g.gender, g.lvl>> \o LE16(g.req_pkm_id)
                    \o <<g.req_gender + 1, g.req_min_lvl, g.req_max_lvl, 0, g.trainer_gender, 0>>
                    \o MidnightTimestampBE(g.deposited_time) \o I64BE(g.traded_time)
                    \o LE32(g.profile_id)
        d0 == head \o Zeros((IF is_gen5 THEN GTS_DATA_LEN_GEN5 ELSE GTS_DATA_LEN_GEN4) - Len(head))
        d1 == IF ~is_gen5
              THEN Overlay(Overlay(d0, \H30, LE16(g.trainer_id)), \H20,
                           Resize(encode_name_gen4(g.trainer_name).value, GTS_NAME_FIELD_LEN))
              ELSE Overlay(Overlay(d0, \H20, LE16(g.trainer_id) \o LE16(g.trainer_secret_id)), \H24,
                           Resize(encode_name_gen5(g.trainer_name), GTS_NAME_FIELD_LEN))
        d2 == Overlay(d1, \H32 + extra_offset,
                      <<code[1], code[2], g.trainer_class, BoolByte(g.is_exchanged), g.game, g.language>>)
    IN  IF is_gen5 THEN Overlay(d2, \H3B, <<g.unity_tower_floors>>) ELSE d2

\* GTSReception::from_pokemon(pokemon).serialize(): the outcome and the body.
\* The record of the Pokemon fails as Pokemon::serialize does (should_be_ok!),
\* the cipher as to_encrypted_data does.
GTSReceptionBody(p, profile_id, req_pkm_id, now, geo, debug) ==
    LET g == GTSDataFromPokemon(p, profile_id, req_pkm_id, now)
        stopped(how) == [outcome |-> how, body |-> <<>>]
    IN  IF SerializeFails(p)
        THEN { stopped(how) : how \in (IF debug THEN {"panic"} ELSE {"panic", "ub"}) }
        ELSE LET enc == to_encrypted_data(serialize(p), debug)
             IN  IF enc.panic \/ GTSDataSerializeFails(g, p.is_gen5) THEN { stopped("panic") }
                 ELSE { [outcome |-> "ok",
                         body |-> enc.data
                                    \o (IF p.is_gen5 THEN Zeros(GEN5_RECEPTION_PAD) ELSE <<>>)
                                    \o GTSDataSerialize(g, p.is_gen5, geo)] }


(***************************************************************************)
(* result.asp (http_server.rs, result_endpoint!) and Pokemon::load          *)
(* (pokemon.rs).  The endpoint reads lines from the terminal until one      *)
(* names a Pokemon of its generation or is blank.                           *)
(***************************************************************************)
RESPONSE_NO_POKEMON == <<5, 0>>

QUOTE == 39

DOUBLE_QUOTE == 34

\* char::is_whitespace on the characters a terminal line holds
WhiteSpace == {9, 10, 11, 12, 13, 32}

\* str::trim
Trim(s) ==
    LET keep == { i \in 1..Len(s) : s[i] \notin WhiteSpace }
    IN  IF keep = {} THEN <<>>
        ELSE SubSeq(s, CHOOSE i \in keep : \A j \in keep : i <= j,
                       CHOOSE i \in keep : \A j \in keep : i >= j)

\* the removal of surrounding quotes: path[1..path.len() - 1] panics when the
\* path is a single quote character (the range starts after its end)
StripQuotes(path) ==
    IF \/ (StartsWith(path, <<QUOTE>>) /\ EndsWith(path, <<QUOTE>>))
       \/ (StartsWith(path, <<DOUBLE_QUOTE>>) /\ EndsWith(path, <<DOUBLE_QUOTE>>))
    THEN IF Len(path) < 2 THEN [panic |-> TRUE, path |-> path]
         ELSE [panic |-> FALSE, path |-> SubSeq(path, 2, Len(path) - 1)]
    ELSE [panic |-> FALSE, path |-> path]

\* Pokemon::load(file_path): the outcomes of the call.  "err" is a returned
\* Err (extension, unreadable file), "panic" the failed assert! on the
\* length or a panic of deserialize, "ub" and "ok" are those of deserialize.
load(file_path, fs, debug) ==
    IF ~(\/ EndsWith(file_path, <<46>> \o EXT_PKM)
         \/ EndsWith(file_path, <<46>> \o EXT_PK4)
         \/ EndsWith(file_path, <<46>> \o EXT_PK5))
    THEN {[outcome |-> "err", pkm |-> NoPkm]}
    ELSE IF file_path \notin DOMAIN fs THEN {[outcome |-> "err", pkm |-> NoPkm]}
    ELSE IF Len(fs[file_path]) \notin {BOXED_PKM_LEN, GEN4_PKM_LEN, GEN5_PKM_LEN}
    THEN {[outcome |-> "panic", pkm |-> NoPkm]}
    ELSE deserialize(fs[file_path], debug)

\* the files the user can name
PathGen4 == <<97, 46, 112, 107, 52>>    \* "a.pk4"
PathGen5 == <<118, 46, 112, 107, 53>>    \* "v.pk5"
PathShort == <<115, 46, 112, 107, 109>>    \* "s.pkm"
PathBoxed == <<98, 46, 112, 107, 109>>    \* "b.pkm"
PathText == <<110, 46, 116, 120, 116>>    \* "n.txt"
PathMissing == <<109, 46, 112, 107, 52>>    \* "m.pk4"
PathInvalid == <<120, 46, 112, 107, 52>>    \* "x.pk4"
PathGen5AsPk4 == <<119, 46, 112, 107, 52>>    \* "w.pk4"

\* the disk of the result.asp runs: a Gen 4 and a Gen 5 Pokemon, the Gen 5
\* one again under a .pk4 name, a file of three bytes, a boxed Pokemon of 136
\* bytes, a Pokemon under a .txt name, and a record whose species no list has
ResultFiles ==
    LET gen4 == DepositedBytes(DepositPika)
        gen5 == DepositedBytes(DepositVictini)
    IN  [path \in {PathGen4, PathGen5, PathGen5AsPk4, PathShort, PathBoxed, PathText, PathInvalid} |->
            IF path = PathGen4 THEN gen4
            ELSE IF path \in {PathGen5, PathGen5AsPk4} THEN gen5
            ELSE IF path = PathShort THEN <<1, 2, 3>>
            ELSE IF path = PathBoxed THEN Slice(gen4, 0, BOXED_PKM_LEN)
            ELSE IF path = PathText THEN gen4
            ELSE [gen4 EXCEPT ![\H09 + 1] = \HFF]]

\* a line as read_line returns it: the text and the newline
LineOf(text) == text \o <<10>>

\* the lines the user enters: blank ones, the paths bare and quoted, a path
\* of no file, and a lone quote
ResultLines ==
    { LineOf(<<>>), LineOf(<<32, 32>>), LineOf(<<QUOTE>>) }
        \cup { LineOf(path) : path \in (DOMAIN ResultFiles) \cup {PathMissing} }
        \cup { LineOf(<<QUOTE>> \o PathGen4 \o <<QUOTE>>),
               LineOf(<<32, DOUBLE_QUOTE>> \o PathGen5 \o <<DOUBLE_QUOTE>>) }

MaxLines == 3

\* the values rng.random() and rng.random_range() give
RandomProfileIds == {U32(0, 1), U32(\HFFFF, \HFFFE)}

RandomRequests(is_gen5) == IF is_gen5 THEN {1, LAST_GEN5_REQUEST} ELSE {1, LAST_GEN4_REQUEST}

NoLoad == "none"

\* one pass of the loop of result_endpoint! for the line read (stdin_ok:
\* read_line returned Ok), and what follows the loop when it is left: the
\* outcome, where the endpoint is then ("prompt": at the next prompt,
\* "respond": the response is sent, "stop": the request ended without one),
\* the body, the Pokemon loaded and what load returned
result_endpoint(gen, line, stdin_ok, fs, profile_id, req_pkm_id, now, geo, debug) ==
    LET at(how, where, body, p, loaded) ==
            [result |-> how, op |-> where, body |-> body, pkm |-> p, load |-> loaded]
    IN  IF ~stdin_ok THEN { at("ok", "prompt", <<>>, NoPkm, NoLoad) }
        ELSE IF Trim(line) = <<>> THEN { at("ok", "respond", RESPONSE_NO_POKEMON, NoPkm, NoLoad) }
        ELSE LET stripped == StripQuotes(Trim(line))
             IN  IF stripped.panic THEN { at("panic", "stop", <<>>, NoPkm, NoLoad) }
                 ELSE UNION {
                        IF l.outcome = "err" THEN { at("ok", "prompt", <<>>, NoPkm, "err") }
                        ELSE IF l.outcome # "ok" THEN { at(l.outcome, "stop", <<>>, NoPkm, l.outcome) }
                        ELSE IF l.pkm.is_gen5 # (gen = 5) THEN { at("ok", "prompt", <<>>, l.pkm, "ok") }
                        ELSE { IF r.outcome = "ok" THEN at("ok", "respond", r.body, l.pkm, "ok")
                               ELSE at(r.outcome, "stop", <<>>, l.pkm, "ok")
                               : r \in GTSReceptionBody(l.pkm, profile_id, req_pkm_id, now, geo, debug) }
                        : l \in load(stripped.path, fs, debug) }

(***************************************************************************)
(* Specification of result.asp: the game asks for a Pokemon, the user       *)
(* enters lines at the prompt until the endpoint responds.                  *)
(***************************************************************************)
\* what result_endpoint! does with each line read, on the disk ResultFiles
ResultOutcomes ==
    [k \in [gen : {4, 5}, line : ResultLines, profile_id : RandomProfileIds,
             req_pkm_id : RandomRequests(FALSE) \cup RandomRequests(TRUE),
             geo : GeonetTables, debug : BOOLEAN] |->
        result_endpoint(k.gen, k.line, TRUE, ResultFiles, k.profile_id, k.req_pkm_id, 0,
                        k.geo, k.debug)]

InitResult ==
    /\ pkm = NoPkm
    /\ bytes = <<>>
    /\ op = "init"
    /\ \E gen \in {4, 5}, geo \in GeonetTables :
          arg = [gen |-> gen, geo |-> geo, line |-> <<>>, stdin_ok |-> TRUE,
                 profile_id |-> U32(0, 0), req_pkm_id |-> 0]
    /\ result = "ok"
    /\ saved = NoLoad
    /\ debug_build \in BOOLEAN
    /\ steps = 0
    /\ files = ResultFiles
    /\ clock = 0

\* what the line read leads to
ResultStep(r, line, stdin_ok, profile_id, req_pkm_id) ==
    /\ arg' = [arg EXCEPT !.line = line, !.stdin_ok = stdin_ok,
                          !.profile_id = profile_id, !.req_pkm_id = req_pkm_id]
    /\ op' = r.op
    /\ result' = r.result
    /\ bytes' = r.body
    /\ pkm' = r.pkm
    /\ saved' = r.load
    /\ steps' = steps + 1
    /\ UNCHANGED <<debug_build, files, clock>>

\* the user enters a line at the prompt
ReadLine ==
    /\ op \in {"init", "prompt"}
    /\ result = "ok"
    /\ steps < MaxLines
    /\ \E line \in ResultLines, profile_id \in RandomProfileIds,
          req_pkm_id \in RandomRequests(arg.gen = 5) :
          \E r \in ResultOutcomes[[gen |-> arg.gen, line |-> line, profile_id |-> profile_id,
                                   req_pkm_id |-> req_pkm_id, geo |-> arg.geo,
                                   debug |-> debug_build]] :
             ResultStep(r, line, TRUE, profile_id, req_pkm_id)

\* read_line fails at the prompt
ReadLineFails ==
    /\ op \in {"init", "prompt"}
    /\ result = "ok"
    /\ steps < MaxLines
    /\ \E r \in result_endpoint(arg.gen, <<>>, FALSE, files, arg.profile_id, arg.req_pkm_id,
                                 clock, arg.geo, debug_build) :
          ResultStep(r, <<>>, FALSE, arg.profile_id, arg.req_pkm_id)

NextResult == ReadLine \/ ReadLineFails

SpecResult == InitResult /\ [][NextResult]_vars


(***************************************************************************)
(* C17: result.asp prompts again after a path that does not load or a      *)
(* Pokemon of the other generation, and responds only to a blank line or    *)
(* with the reception of a Pokemon of its generation.                       *)
(***************************************************************************)
LineIsBlank == Trim(arg.line) = <<>>

\* the path the line names, surrounding quotes removed
EnteredPath == StripQuotes(Trim(arg.line)).path

HasPokemonExtension(path) ==
    \E ext \in {EXT_PKM, EXT_PK4, EXT_PK5} : EndsWith(path, <<46>> \o ext)

\* the path fails to load: wrong extension, no such file, or a file whose
\* length is not 136, 220 or 236
FailsToLoad(path) ==
    \/ ~HasPokemonExtension(path)
    \/ path \notin DOMAIN files
    \/ Len(files[path]) \notin {BOXED_PKM_LEN, GEN4_PKM_LEN, GEN5_PKM_LEN}

WrongGeneration(path) == RecordIsGen5(files[path]) # (arg.gen = 5)

IsReceptionOfLoaded ==
    \E r \in GTSReceptionBody(pkm, arg.profile_id, arg.req_pkm_id, clock, arg.geo, debug_build) :
        r.outcome = "ok" /\ bytes = r.body

\* C17: after every line read the handler is running (it has not aborted);
\* it is at a new prompt when the terminal failed, the path failed to load
\* or the Pokemon loaded is of the other generation; it has responded 05 00
\* when the line was blank; and when it has responded otherwise, the body is
\* the reception of the Pokemon loaded, which is of the endpoint's generation.
C17_RepromptsOrResponds ==
    (op # "init") =>
        /\ result = "ok"
        /\ ~arg.stdin_ok => op = "prompt"
        /\ (arg.stdin_ok /\ LineIsBlank) => (op = "respond" /\ bytes = RESPONSE_NO_POKEMON)
        /\ (arg.stdin_ok /\ ~LineIsBlank) =>
              IF FailsToLoad(EnteredPath) \/ WrongGeneration(EnteredPath)
              THEN op = "prompt"
              ELSE /\ op = "respond"
                   /\ pkm.is_gen5 = (arg.gen = 5)
                   /\ IsReceptionOfLoaded

\* C17, what the code does: while the handler runs, a path of a wrong
\* extension or of no file and a Pokemon of the other generation lead to a
\* new prompt, a blank line to 05 00, and every other response is the
\* reception of a loaded Pokemon of the endpoint's generation.
C17_RepromptsWhileRunning ==
    (op # "init" /\ result = "ok") =>
        /\ op \in {"prompt", "respond"}
        /\ ~arg.stdin_ok => op = "prompt"
        /\ (arg.stdin_ok /\ LineIsBlank) => (op = "respond" /\ bytes = RESPONSE_NO_POKEMON)
        /\ (arg.stdin_ok /\ ~LineIsBlank) =>
              IF FailsToLoad(EnteredPath) \/ WrongGeneration(EnteredPath)
              THEN op = "prompt"
              ELSE /\ op = "respond"
                   /\ pkm.is_gen5 = (arg.gen = 5)
                   /\ IsReceptionOfLoaded

\* C17: the user names a file of three bytes with a .pkm name, and the
\* handler has aborted on the length assertion instead of prompting again
C17_WrongLengthAborts ==
    /\ arg.stdin_ok
    /\ arg.line = LineOf(PathShort)
    /\ Len(files[PathShort]) = 3
    /\ saved = "panic"
    /\ result = "panic"
    /\ op = "stop"

\* C17: a second line was read after a path of the other generation, and the
\* reception of a Pokemon of the endpoint's generation was sent
C17_ReceptionAfterReprompt ==
    /\ steps = 2
    /\ op = "respond"
    /\ ~LineIsBlank
    /\ pkm.is_gen5 = (arg.gen = 5)
    /\ IsReceptionOfLoaded


(***************************************************************************)
(* SHA-1 (the sha1 crate, as used by gts_response_gen5), on 32-bit words    *)
(* kept as two 16-bit halves.                                               *)
(***************************************************************************)
SHA1_BLOCK_LEN == 64

SHA1_ROUNDS == 80

SHA1_H0 == <<U32(\H6745, \H2301), U32(\HEFCD, \HAB89), U32(\H98BA, \HDCFE),
             U32(\H1032, \H5476), U32(\HC3D2, \HE1F0)>>

SHA1_K == <<U32(\H5A82, \H7999), U32(\H6ED9, \HEBA1), U32(\H8F1B, \HBCDC), U32(\HCA62, \HC1D6)>>

\* u32::wrapping_add
U32WrappingAdd(x, y) ==
    LET lo == x.lo + y.lo
    IN  U32((x.hi + y.hi + (lo \div U16)) % U16, lo % U16)

U32And(x, y) == U32(BitAnd(x.hi, y.hi, 16), BitAnd(x.lo, y.lo, 16))

U32Or(x, y) == U32(BitOr(x.hi, y.hi, 16), BitOr(x.lo, y.lo, 16))

U32Not(x) == U32((U16 - 1) - x.hi, (U16 - 1) - x.lo)

\* u32::rotate_left(n), for 0 < n < 32
U32RotateLeft(x, n) ==
    LET y == IF n >= 16 THEN U32(x.lo, x.hi) ELSE x
        m == n % 16
        p == 2 ^ m
        q == 2 ^ (16 - m)
    IN  IF m = 0 THEN y
        ELSE U32(((y.hi * p) % U16) + (y.lo \div q), ((y.lo * p) % U16) + (y.hi \div q))

\* the padded message: the bytes, 0x80, zeros, and the length in bits as a
\* 64-bit big-endian number (messages here are shorter than 8192 bytes)
Sha1Pad(msg) ==
    LET bits == Len(msg) * 8
        fill == ((SHA1_BLOCK_LEN + 55) - (Len(msg) % SHA1_BLOCK_LEN)) % SHA1_BLOCK_LEN
    IN  msg \o <<128>> \o Zeros(fill) \o <<0, 0, 0, 0, 0, 0, bits \div 256, bits % 256>>

\* the big-endian word at byte offset off
Sha1Word(b, off) == U32((At(b, off) * 256) + At(b, off + 1), (At(b, off + 2) * 256) + At(b, off + 3))

\* the message schedule: w holds W[0..from-1] and is extended to W[0..to-1]
\* (the range is halved, and the first half evaluated first, to keep the
\* evaluation shallow)
RECURSIVE Sha1Schedule(_, _, _)
Sha1Schedule(w, from, to) ==
    IF to <= from THEN w
    ELSE IF to = from + 1
    THEN LET t == from + 1
             x == U32Xor(U32Xor(w[t - 3], w[t - 8]), U32Xor(w[t - 14], w[t - 16]))
         IN  Append(w, U32RotateLeft(x, 1))
    ELSE LET mid == (from + to) \div 2
             left == Sha1Schedule(w, from, mid)
         IN  IF Len(left) # mid THEN left ELSE Sha1Schedule(left, mid, to)

\* the round function and constant of round t (0-based)
Sha1F(t, b, c, d) ==
    IF t < 20 THEN U32Or(U32And(b, c), U32And(U32Not(b), d))
    ELSE IF t < 40 \/ t >= 60 THEN U32Xor(U32Xor(b, c), d)
    ELSE U32Or(U32Or(U32And(b, c), U32And(b, d)), U32And(c, d))

\* rounds from..to-1 on the working variables s = <<a, b, c, d, e>> (the
\* range is halved, and the first half evaluated first, to keep the
\* evaluation shallow)
RECURSIVE Sha1Rounds(_, _, _, _)
Sha1Rounds(s, w, from, to) ==
    IF to <= from THEN s
    ELSE IF to = from + 1
    THEN LET temp == U32WrappingAdd(
                        U32WrappingAdd(U32RotateLeft(s[1], 5), Sha1F(from, s[2], s[3], s[4])),
                        U32WrappingAdd(U32WrappingAdd(s[5], SHA1_K[(from \div 20) + 1]), w[from + 1]))
         IN  <<temp, s[1], U32RotateLeft(s[2], 30), s[3], s[4]>>
    ELSE LET mid == (from + to) \div 2
             left == Sha1Rounds(s, w, from, mid)
         IN  IF Len(left) # 5 THEN left ELSE Sha1Rounds(left, w, mid, to)

\* the compression of one 64-byte block into the state h
Sha1Compress(h, block) ==
    LET w == Sha1Schedule(<<>> \o [i \in 1..16 |-> Sha1Word(block, (i - 1) * 4)], 16, SHA1_ROUNDS)
        s == Sha1Rounds(h, w, 0, SHA1_ROUNDS)
    IN  <<U32WrappingAdd(h[1], s[1]), U32WrappingAdd(h[2], s[2]), U32WrappingAdd(h[3], s[3]),
          U32WrappingAdd(h[4], s[4]), U32WrappingAdd(h[5], s[5])>>

\* the compression of blocks from..to-1 of the padded message
RECURSIVE Sha1Blocks(_, _, _, _)
Sha1Blocks(h, padded, from, to) ==
    IF to <= from THEN h
    ELSE IF to = from + 1
    THEN Sha1Compress(h, Slice(padded, from * SHA1_BLOCK_LEN, to * SHA1_BLOCK_LEN))
    ELSE LET mid == (from + to) \div 2
             left == Sha1Blocks(h, padded, from, mid)
         IN  IF Len(left) # 5 THEN left ELSE Sha1Blocks(left, padded, mid, to)

\* Sha1::finalize: the 20 bytes of the digest
Sha1(msg) ==
    LET padded == Sha1Pad(msg)
        h == Sha1Blocks(SHA1_H0, padded, 0, Len(padded) \div SHA1_BLOCK_LEN)
        word(x) == <<x.hi \div 256, x.hi % 256, x.lo \div 256, x.lo % 256>>
    IN  word(h[1]) \o word(h[2]) \o word(h[3]) \o word(h[4]) \o word(h[5])

\* format!("{:x}", digest): two lowercase hexadecimal digits for each byte
HexDigit(n) == IF n < 10 THEN 48 + n ELSE 87 + n

RECURSIVE LowerHexFrom(_, _)
LowerHexFrom(b, i) ==
    IF i > Len(b) THEN <<>>
    ELSE <<HexDigit(b[i] \div 16), HexDigit(b[i] % 16)>> \o LowerHexFrom(b, i + 1)

LowerHex(b) == LowerHexFrom(b, 1)


(***************************************************************************)
(* Response framing (http_server.rs): gts_response_gen4, gts_response_gen5  *)
(* and the middleware handle_request!.  A query is the sequence of          *)
(* <<key, value>> pairs of the URL.                                         *)
(***************************************************************************)
GTS_TOKEN ==
    <<99, 57, 75, 99, 88, 49, 67, 114, 121, 51, 81, 75, 83, 50, 65, 105, 55, 121, 120, 76, 54, 81,
      105, 81, 71, 101, 66, 71, 101, 81, 75, 82>>                 \* "c9KcX1Cry3QKS2Ai7yxL6QiQGeBGeQKR"

GEN5_SALT ==
    <<72, 90, 69, 100, 71, 67, 122, 99, 71, 71, 76, 118, 103, 117, 113, 85, 69, 75, 81, 78>>
                                                                  \* "HZEdGCzcGGLvguqUEKQN"

RESPONSE_OK == <<1, 0>>

SET_PROFILE_LEN == 8

\* gts_response_gen4(body): the headers aside, the body as it is
gts_response_gen4(body) == body

\* the footer of a Gen 5 response
Gen5Footer(body) == LowerHex(Sha1(GEN5_SALT \o Base64Encode(body) \o GEN5_SALT))

\* gts_response_gen5(body)
gts_response_gen5(body) ==
    IF Len(body) = 0 THEN gts_response_gen4(body)
    ELSE gts_response_gen4(body \o Gen5Footer(body))

\* Query::<HashMap<String, String>>::from_query: the keys of the map (a key
\* given twice is one entry)
QueryKeys(query) == { query[i][1] : i \in 1..Len(query) }

\* the value the map holds for key: the last one given
QueryValue(query, key) ==
    LET at == { i \in 1..Len(query) : query[i][1] = key }
    IN  query[CHOOSE i \in at : \A j \in at : j <= i][2]

\* the endpoint of a known route, run to its end: the outcomes
Endpoint(gen, route, query, line, fs, now, disk_ok, profile_id, req_pkm_id, geo, debug) ==
    LET done(body) == {[result |-> "ok", body |-> body, files |-> fs]}
    IN  CASE route \in {"info", "delete"} -> done(RESPONSE_OK)
          [] route = "search" -> done(<<>>)
          [] route = "set_profile" -> done(Zeros(SET_PROFILE_LEN))
          [] route = "post" ->
                { [result |-> e.result, body |-> e.body, files |-> e.files] :
                    e \in UNION { post_endpoint(r, fs, now, disk_ok, debug) :
                                    r \in from_base64(QueryValue(query, "data"), gen = 5, debug) } }
          [] route = "result" ->
                { [result |-> r.result, body |-> r.body, files |-> fs] :
                    r \in result_endpoint(gen, line, TRUE, fs, profile_id, req_pkm_id, now, geo, debug) }

\* handle_request!: what the middleware answers to a request, and whether the
\* endpoint was run
handle_request(gen, route, query, line, fs, now, disk_ok, profile_id, req_pkm_id, geo, debug) ==
    IF route = "unknown"
    THEN {[result |-> "ok", wire |-> <<>>, ran |-> FALSE, body |-> <<>>, files |-> fs]}
    ELSE IF Cardinality(QueryKeys(query)) = 1
    THEN {[result |-> "ok", wire |-> gts_response_gen4(GTS_TOKEN), ran |-> FALSE, body |-> <<>>,
           files |-> fs]}
    ELSE { [result |-> e.result,
            wire |-> IF e.result # "ok" THEN <<>>
                     ELSE IF gen = 5 THEN gts_response_gen5(e.body) ELSE gts_response_gen4(e.body),
            ran |-> TRUE, body |-> e.body, files |-> e.files] :
           e \in Endpoint(gen, route, query, line, fs, now, disk_ok, profile_id, req_pkm_id, geo,
                          debug) }

(***************************************************************************)
(* Specification of the HTTP layer: the game sends requests to the routes   *)
(* of a generation's scope.                                                 *)
(***************************************************************************)
MaxRequests == 1

\* query values: a number, a hash
QueryOne == <<49>>
QueryHash == <<97, 98>>

\* the queries of a request: none, a token request, two parameters, and the
\* same key twice
PlainQueries ==
    { <<>>, << <<"token", QueryHash>> >>, << <<"pid", QueryOne>>, <<"hash", QueryHash>> >>,
      << <<"pid", QueryOne>>, <<"pid", QueryHash>> >> }

\* the requests of a scope: the route, the query and, for result.asp, the
\* line the user enters (blank, or a Pokemon of the scope's generation)
FrameRequests(gen) ==
    { [route |-> route, query |-> query, line |-> <<10>>] :
        route \in {"info", "search", "delete", "set_profile", "unknown"}, query \in PlainQueries }
    \cup { [route |-> "post", query |-> query, line |-> <<10>>] :
             query \in { << <<"data", t>> >> : t \in {TextNotBase64} }
                \cup { << <<"pid", QueryOne>>, <<"data", t>> >> :
                        t \in { TextNotBase64,
                                TextOfDeposit(IF gen = 5 THEN DepositVictini ELSE DepositPika) } } }
    \cup { [route |-> "result", query |-> << <<"pid", QueryOne>>, <<"hash", QueryHash>> >>,
            line |-> line] :
             line \in { <<10>>, LineOf(IF gen = 5 THEN PathGen5 ELSE PathGen4) } }

\* the values this specification gives to rng.random() and
\* rng.random_range(), and its Geonet table
FrameProfileId == U32(0, 1)

FrameRequestedSpecies == CHOOSE r \in RandomRequests(FALSE) : \A q \in RandomRequests(FALSE) : r <= q

FrameGeonet == CHOOSE geo \in GeonetTables : TRUE

\* the disk at the start: the files of ResultFiles, and the same with the
\* Gen 4 Pokemon already in the deposit directory
FrameFiles ==
    { ResultFiles,
      WriteFile(ResultFiles, SavePath(DepositPika, 0), DepositedBytes(DepositPika)) }

NoRequest == [ran |-> FALSE, body |-> <<>>]

InitFrame ==
    /\ pkm = NoPkm
    /\ bytes = <<>>
    /\ op = "init"
    /\ \E gen \in {4, 5} : arg = [gen |-> gen, query |-> <<>>, line |-> <<>>]
    /\ result = "ok"
    /\ saved = NoRequest
    /\ debug_build \in BOOLEAN
    /\ steps = 0
    /\ files \in FrameFiles
    /\ clock = 0

\* one request, answered by the middleware of the scope
Request ==
    /\ result = "ok"
    /\ steps < MaxRequests
    /\ \E req \in FrameRequests(arg.gen) :
          \E r \in handle_request(arg.gen, req.route, req.query, req.line, files, clock, TRUE,
                                  FrameProfileId, FrameRequestedSpecies, FrameGeonet, debug_build) :
             /\ op' = req.route
             /\ arg' = [arg EXCEPT !.query = req.query, !.line = req.line]
             /\ result' = r.result
             /\ bytes' = r.wire
             /\ saved' = [ran |-> r.ran, body |-> r.body]
             /\ files' = r.files
    /\ steps' = steps + 1
    /\ UNCHANGED <<pkm, debug_build, clock>>

NextFrame == Request

SpecFrame == InitFrame /\ [][NextFrame]_vars


(***************************************************************************)
(* C20: the framing of responses under the Gen 5 scope.                     *)
(***************************************************************************)
IsLowerHex(text) == \A i \in 1..Len(text) : text[i] \in (48..57) \cup (97..102)

\* the wire body is the endpoint's body and its 40-character footer, or is
\* empty for an empty body
FramedAsGen5 ==
    /\ saved.ran
    /\ IF saved.body = <<>> THEN bytes = <<>>
       ELSE /\ Len(bytes) = Len(saved.body) + 40
            /\ SubSeq(bytes, 1, Len(saved.body)) = saved.body
            /\ IsLowerHex(SubSeq(bytes, Len(saved.body) + 1, Len(bytes)))
            /\ SubSeq(bytes, Len(saved.body) + 1, Len(bytes)) = Gen5Footer(saved.body)

AnsweredWithToken == bytes = GTS_TOKEN /\ Len(bytes) = 32 /\ ~saved.ran

Gen5RequestAnswered == arg.gen = 5 /\ op \notin {"init", "unknown"} /\ result = "ok"

\* C20: under the Gen 5 scope, a request to a known route with exactly one
\* query parameter is answered with the 32-byte token and no footer, the
\* endpoint not being run; every other request to a known route is answered
\* with the endpoint's body followed by the 40-character lowercase SHA-1
\* footer, or with an empty body when the endpoint's body is empty.
C20_Gen5Framing ==
    Gen5RequestAnswered =>
        IF Len(arg.query) = 1 THEN AnsweredWithToken ELSE FramedAsGen5

\* C20, what the code does: the token is the answer when the query has
\* exactly one distinct key, however many parameters carry it.
C20_FramingByDistinctKeys ==
    Gen5RequestAnswered =>
        IF Cardinality(QueryKeys(arg.query)) = 1 THEN AnsweredWithToken ELSE FramedAsGen5

\* C20: info.asp?pid=1&pid=ab under the Gen 5 scope, two parameters with the
\* same key, was answered with the token and the endpoint was not run
C20_RepeatedKeyGetsToken ==
    /\ arg.gen = 5
    /\ op = "info"
    /\ Len(arg.query) = 2
    /\ arg.query[1][1] = arg.query[2][1]
    /\ bytes = GTS_TOKEN
    /\ ~saved.ran

\* C20: a reception under the Gen 5 scope was sent with its footer
C20_ReceptionFramed ==
    /\ arg.gen = 5
    /\ op = "result"
    /\ Len(saved.body) = GEN5_PKM_LEN + GEN5_RECEPTION_PAD + GTS_DATA_LEN_GEN5
    /\ FramedAsGen5


(***************************************************************************)
(* Specification of GTSReception (gts.rs): a reception is built from a      *)
(* Pokemon and serialized into the body result.asp sends.                   *)
(***************************************************************************)
\* a Pokemon whose record has the checksum 0x3805
ReceptionOverflowPika == [DepositPika EXCEPT !.trainer_id = 15011]

\* the Pokemon a reception is built from
ReceptionPokemon ==
    WellFormedPokemon \cup {DepositPikaOtherItem, DepositPikaShiny, ReceptionOverflowPika}

\* the moments at which the reception is built
ReceptionClocks == {0, 1}

InitReception ==
    /\ pkm \in ReceptionPokemon
    /\ bytes = <<>>
    /\ op = "init"
    /\ arg = NoArg
    /\ result = "ok"
    /\ saved = NoPkm
    /\ debug_build \in BOOLEAN
    /\ steps = 0
    /\ files = NoFiles
    /\ clock \in ReceptionClocks

\* bytes = GTSReception::from_pokemon(&pkm).serialize()
ReceptionSerialize ==
    /\ op = "init"
    /\ \E profile_id \in RandomProfileIds, req_pkm_id \in RandomRequests(pkm.is_gen5),
          geo \in GeonetTables :
          /\ arg' = [profile_id |-> profile_id, req_pkm_id |-> req_pkm_id, geo |-> geo]
          /\ \E r \in GTSReceptionBody(pkm, profile_id, req_pkm_id, clock, geo, debug_build) :
                /\ result' = r.outcome
                /\ bytes' = r.body
    /\ op' = "reception"
    /\ saved' = pkm
    /\ steps' = steps + 1
    /\ UNCHANGED <<pkm, debug_build, files, clock>>

NextReception == ReceptionSerialize

SpecReception == InitReception /\ [][NextReception]_vars


(***************************************************************************)
(* C21: the layout of the serialized reception.                             *)
(***************************************************************************)
\* the length of the Pokemon part of a reception
ReceptionPokemonLen(is_gen5) == IF is_gen5 THEN GEN5_PKM_LEN ELSE GEN4_PKM_LEN

\* the body is the encrypted Pokemon, the Gen 5 padding and the GTS data,
\* and the Pokemon part decrypts to pokemon.serialize()
ReceptionLayout(p, body, geo, profile_id, req_pkm_id, now, debug) ==
    LET n == ReceptionPokemonLen(p.is_gen5)
        pad == IF p.is_gen5 THEN GEN5_RECEPTION_PAD ELSE 0
        gts_len == IF p.is_gen5 THEN GTS_DATA_LEN_GEN5 ELSE GTS_DATA_LEN_GEN4
        dec == to_decrypted_data(Slice(body, 0, n), debug)
    IN  /\ Len(body) = n + pad + gts_len
        /\ Slice(body, n, n + pad) = Zeros(pad)
        /\ Slice(body, n + pad, Len(body))
              = GTSDataSerialize(GTSDataFromPokemon(p, profile_id, req_pkm_id, now), p.is_gen5, geo)
        /\ ~dec.panic
        /\ dec.data = serialize(p)

\* C21: GTSReception::serialize returns, for every Pokemon, the encrypted
\* Pokemon (236 or 220 bytes), 16 zero bytes for Gen 5, and the GTS data of
\* 0x38 or 0x3C bytes, and the Pokemon part decrypts back to
\* pokemon.serialize()
C21_ReceptionLayout ==
    op = "reception" =>
        /\ result = "ok"
        /\ ReceptionLayout(pkm, bytes, arg.geo, arg.profile_id, arg.req_pkm_id, clock, debug_build)

\* C21, for the receptions that are returned
C21_ReturnedReceptionLayout ==
    (op = "reception" /\ result = "ok") =>
        ReceptionLayout(pkm, bytes, arg.geo, arg.profile_id, arg.req_pkm_id, clock, debug_build)

\* C21: a Gen 5 reception has been returned, 296 bytes long
C21_Gen5ReceptionReturned ==
    /\ op = "reception"
    /\ result = "ok"
    /\ pkm.is_gen5
    /\ Len(bytes) = GEN5_PKM_LEN + GEN5_RECEPTION_PAD + GTS_DATA_LEN_GEN5

\* C21: a debug build has panicked while encrypting the Pokemon
C21_DebugBuildPanics ==
    /\ op = "reception"
    /\ result = "panic"
    /\ debug_build
    /\ pkm = ReceptionOverflowPika
    /\ ChecksumOf(serialize(pkm)) = \H3805


(***************************************************************************)
(* C22: the key stream of the LCG XOR cipher.                               *)
(***************************************************************************)
\* state_k of the generator: state_0 = seed, state_k = (state_{k-1} *
\* 0x41C64E6D + 0x6073) mod 2^32
RECURSIVE LcgStateAfter(_, _)
LcgStateAfter(seed, k) ==
    IF k = 0 THEN seed
    ELSE LET half == LcgStateAfter(seed, (k - 1) \div 2)
         IN  IF half.hi < 0 THEN half
             ELSE LcgStateAfter(LcgAdd(LcgWrappingMul(half)), k - 1 - ((k - 1) \div 2))

\* the region with its k-th word XORed with state_k >> 16
LcgXored(region, seed) ==
    LET words == WordsOf(region)
    IN  BytesOf([k \in 1..Len(words) |-> BitXor(words[k], LcgStateAfter(seed, k).hi, 16)])

\* the buffer with the block region ciphered under the checksum and the
\* party tail under the PID
LcgCiphered(data) ==
    Slice(data, 0, \H08)
        \o LcgXored(Slice(data, \H08, BOXED_PKM_LEN), U32(0, ChecksumOf(data)))
        \o LcgXored(Slice(data, BOXED_PKM_LEN, Len(data)), ReadU32(data, 0))

\* C22: for every seed, encryption_step completes and XORs the k-th word
\* with state_k >> 16 of the wrapping LCG; crypt_data seeds the block region
\* with the checksum and the party tail with the PID
C22_LcgKeyStream ==
    (op = "to_encrypted_data" /\ arg = "init") =>
        /\ result = "ok"
        /\ bytes = LcgCiphered(shuffle_blocks(saved, ReadU32(saved, 0)))

\* C22, for the calls that return: the key stream is the one stated
C22_KeyStreamUnlessPanic ==
    (op = "to_encrypted_data" /\ arg = "init" /\ result = "ok") =>
        bytes = LcgCiphered(shuffle_blocks(saved, ReadU32(saved, 0)))

\* C22: with the seed 0x3805, state_7 * 0x41C64E6D lies within 0x6073 of
\* u32::MAX, and a build with overflow checks has panicked in encryption_step
C22_EighthStepOverflows ==
    /\ op = "to_encrypted_data"
    /\ arg = "init"
    /\ debug_build
    /\ result = "panic"
    /\ ChecksumOf(saved) = \H3805
    /\ LcgAddOverflows(LcgWrappingMul(LcgStateAfter(U32(0, \H3805), 7)))

\* C22: a zero word at 0x08 under checksum 0x1234 has been ciphered to
\* (0x1234 * 0x41C64E6D + 0x6073 mod 2^32) >> 16
C22_VectorCiphered ==
    /\ op = "to_encrypted_data"
    /\ arg = "init"
    /\ result = "ok"
    /\ ChecksumOf(saved) = \H1234
    /\ ReadU16(shuffle_blocks(saved, ReadU32(saved, 0)), \H08) = 0
    /\ ReadU16(bytes, \H08) = LcgStateAfter(U32(0, \H1234), 1).hi
    /\ ReadU16(bytes, \H08) = \H4DCB


(***************************************************************************)
(* Specification of the decoding of a deposit (gts.rs, from_base64 after    *)
(* the Base64 step): the decoded bytes are split into the checksum, the     *)
(* profile id and the Pokemon record.                                       *)
(***************************************************************************)
\* the first four bytes of a deposit: the sample, two arbitrary ones, and
\* 0x4A3B7948, whose Gen 4 checksum is 0x00005555
StreamChecksumBytes ==
    { DEPOSIT_CHECKSUM, <<0, 0, 0, 0>>, <<\HFF, \HFF, \HFF, \HFF>>, <<\H4A, \H3B, \H79, \H48>> }

\* the lengths of a decoded Gen 4 and Gen 5 deposit
StreamDepositLengths == { GEN4_DEPOSIT_END, GEN5_DEPOSIT_PKM_END + GTS_DATA_LEN_GEN5 }

\* decoded deposits: the four bytes, then bytes of a pattern or what a game
\* sends for the sample Pokemon
StreamDeposits ==
    { sum \o [i \in 1..(len - 4) |-> PatternByte(k, i + 3)] :
        sum \in StreamChecksumBytes, len \in StreamDepositLengths, k \in 0..2 }
        \cup { sum \o Slice(body, 4, Len(body)) :
                 sum \in StreamChecksumBytes,
                 body \in { GameDepositGen4(serialize(DepositPika)),
                            GameDepositGen5(serialize(DepositVictini)) } }

NoParts == [panic |-> FALSE, gts_checksum |-> U32(0, 0), profile_id |-> U32(0, 0), record |-> <<>>]

InitStream ==
    /\ pkm = NoPkm
    /\ bytes \in StreamDeposits
    /\ op = "init"
    /\ arg = [is_gen5 |-> FALSE]
    /\ result = "ok"
    /\ saved = NoParts
    /\ debug_build \in BOOLEAN
    /\ steps = 0
    /\ InitEnv

\* from_base64 on the text whose decoding is bytes, up to the call of
\* to_decrypted_data
DecodeDeposit ==
    /\ op = "init"
    /\ \E is_gen5 \in BOOLEAN :
          LET parts == DepositParts(bytes, is_gen5, debug_build)
          IN  /\ arg' = [is_gen5 |-> is_gen5]
              /\ saved' = parts
              /\ result' = IF parts.panic THEN "panic" ELSE "ok"
    /\ op' = "from_base64"
    /\ steps' = steps + 1
    /\ UNCHANGED <<pkm, bytes, debug_build>>
    /\ UNCHANGED env

NextStream == DecodeDeposit

SpecStream == InitStream /\ [][NextStream]_vars


(***************************************************************************)
(* C23: the stream cipher of a Gen 4 deposit and the slices of the record.  *)
(***************************************************************************)
\* the state before byte k (k >= 1): state_0 is the key, state_k =
\* ((state_{k-1} * 0x45) + 0x1111) AND 0x7FFFFFFF
RECURSIVE StreamStateAfter(_, _)
StreamStateAfter(key, k) ==
    IF k = 0 THEN key
    ELSE LET half == StreamStateAfter(key, (k - 1) \div 2)
         IN  IF half.hi < 0 THEN half
             ELSE StreamStateAfter(StreamAddMasked(StreamWrappingMul(half)),
                                   k - 1 - ((k - 1) \div 2))

\* the bytes XORed with the key bytes (state_k >> 16) & 0xFF
StreamXored(data, key) ==
    [k \in 1..Len(data) |-> BitXor(data[k], StreamStateAfter(key, k).hi % 256, 8)]

\* the fields the claim states for the decoded deposit
StatedParts(data, is_gen5, parts) ==
    LET sum == U32Xor(ReadU32BE(data, 0), IF is_gen5 THEN GTS_XOR_GEN5 ELSE GTS_XOR_GEN4)
        key == U32(BitOr(sum.hi, sum.lo, 16), sum.lo)
        plain == Slice(data, 0, \H04) \o StreamXored(Slice(data, \H04, \HF4), key)
    IN  /\ parts.gts_checksum = sum
        /\ ~is_gen5 => /\ parts.profile_id = ReadU32(plain, \H04)
                       /\ parts.record = Slice(plain, \H08, \HF4)
        /\ is_gen5 => parts.record = Slice(data, \H0C, \HE8)

\* C23: for every decoded deposit and every GTS checksum, from_base64 XORs
\* the bytes 0x04..0xF4 of a Gen 4 deposit with the key bytes of the stated
\* generator without an overflow failure, reads the profile id from bytes
\* 0x04..0x08 and hands bytes 0x08..0xF4 on (Gen 5: bytes 0x0C..0xE8 as
\* received)
C23_StreamDecoding ==
    op = "from_base64" =>
        /\ result = "ok"
        /\ StatedParts(bytes, arg.is_gen5, saved)

\* C23, for the calls that reach to_decrypted_data
C23_StreamDecodingUnlessPanic ==
    (op = "from_base64" /\ result = "ok") => StatedParts(bytes, arg.is_gen5, saved)

\* C23: a Gen 4 deposit with the GTS checksum 0x00005555 has made the first
\* step of the generator overflow in a build with overflow checks
C23_FirstStepOverflows ==
    /\ op = "from_base64"
    /\ ~arg.is_gen5
    /\ debug_build
    /\ result = "panic"
    /\ saved.gts_checksum = U32(0, \H5555)
    /\ StreamAddOverflows(StreamWrappingMul(U32(\H5555, \H5555)))

\* C23: the deposit a Gen 4 game sends for the sample Pikachu has been
\* decoded to its profile id and its encrypted record
C23_GameDepositDecoded ==
    /\ op = "from_base64"
    /\ ~arg.is_gen5
    /\ result = "ok"
    /\ bytes = GameDepositGen4(serialize(DepositPika))
    /\ saved.profile_id = ReadU32(DEPOSIT_PROFILE, 0)
    /\ saved.record = to_encrypted_data(serialize(DepositPika), FALSE).data


(***************************************************************************)
(* Specification of the encryption-bypass packaging (pokemon.rs,            *)
(* to_encryption_bypass_data) on raw buffers.                               *)
(***************************************************************************)
BYPASS_FLAGS == 3       \* encrypted_data[0x04] |= 0x03

\* to_encryption_bypass_data(decrypted_data): [panic, data]
to_encryption_bypass_data(data) ==
    IF Len(data) < BOXED_PKM_LEN THEN [panic |-> TRUE, data |-> data]
    ELSE LET pid == ReadU32(data, 0)
             shuffled == shuffle_blocks(data, pid)
         IN  [panic |-> FALSE,
              data |-> [shuffled EXCEPT ![\H04 + 1] = BitOr(shuffled[\H04 + 1], BYPASS_FLAGS, 8)]]

\* plaintext records: the buffers of the cipher, and boxed ones
BypassBuffers ==
    CipherBuffers \cup { Slice(b, 0, BOXED_PKM_LEN) : b \in CipherBuffers }

InitBypass ==
    /\ pkm = NoPkm
    /\ bytes \in BypassBuffers
    /\ op = "init"
    /\ arg = "none"
    /\ result = "ok"
    /\ saved = bytes
    /\ debug_build \in BOOLEAN
    /\ steps = 0
    /\ InitEnv

\* bytes = Pokemon::to_encryption_bypass_data(&bytes)
ToEncryptionBypassData ==
    /\ op = "init"
    /\ LET r == to_encryption_bypass_data(bytes)
       IN  /\ result' = IF r.panic THEN "panic" ELSE "ok"
           /\ bytes' = r.data
    /\ op' = "to_encryption_bypass_data"
    /\ arg' = op
    /\ steps' = steps + 1
    /\ UNCHANGED <<pkm, saved, debug_build>>
    /\ UNCHANGED env

NextBypass == ToEncryptionBypassData

SpecBypass == InitBypass /\ [][NextBypass]_vars


(***************************************************************************)
(* C24: what to_encryption_bypass_data changes.                             *)
(***************************************************************************)
\* the record with the byte at 0x04 replaced
WithFlags(data, flags) == [data EXCEPT ![\H04 + 1] = flags]

\* C24: the result is the record with the blocks at 0x08..0x88 shuffled by
\* the PID's permutation and not XORed, bit 0 of the byte at 0x04 set, and
\* every other bit (bit 1, the bad-egg flag, among them) unchanged
C24_BypassSetsBitZeroOnly ==
    op = "to_encryption_bypass_data" =>
        /\ result = "ok"
        /\ bytes = WithFlags(shuffle_blocks(saved, ReadU32(saved, 0)),
                             BitOr(At(saved, \H04), 1, 8))

\* C24, apart from bit 1 of the byte at 0x04: the blocks are shuffled and not
\* XORed, bit 0 is set, and the other bytes and bits 2..7 are unchanged
C24_BypassApartFromBitOne ==
    op = "to_encryption_bypass_data" =>
        /\ result = "ok"
        /\ WithFlags(bytes, BitOr(At(bytes, \H04), 2, 8))
              = WithFlags(shuffle_blocks(saved, ReadU32(saved, 0)),
                          BitOr(At(saved, \H04), 3, 8))

\* C24: a record whose byte at 0x04 was 0 has been packaged with the byte 3:
\* the bad-egg bit is set as well
C24_BadEggBitSet ==
    /\ op = "to_encryption_bypass_data"
    /\ result = "ok"
    /\ At(saved, \H04) = 0
    /\ At(bytes, \H04) = 3
    /\ BitAnd(At(bytes, \H04), 2, 8) = 2


(***************************************************************************)
(* C25: the flag bits of a record.                                          *)
(***************************************************************************)
\* bit n of the byte at offset off
RecordBit(b, off, n) == BitOf(At(b, off), n) = 1

\* C25: deserialize sets encryption_bypass iff bit 0 of byte 0x04 is set,
\* bad_egg_flag iff bit 1 of byte 0x04, is_egg iff bit 6 of byte 0x3B and
\* is_nicknamed iff bit 7 of byte 0x3B, each independent of the other bits;
\* serialize writes the four flags to those bits
C25_FlagsDecodeTheirBits ==
    /\ (op = "deserialize" /\ result = "ok") =>
          /\ pkm.encryption_bypass <=> RecordBit(bytes, \H04, 0)
          /\ pkm.bad_egg_flag <=> RecordBit(bytes, \H04, 1)
          /\ pkm.is_egg <=> RecordBit(bytes, \H3B, 6)
          /\ pkm.is_nicknamed <=> RecordBit(bytes, \H3B, 7)
    /\ (op = "serialize" /\ result = "ok") =>
          /\ pkm.encryption_bypass <=> RecordBit(bytes, \H04, 0)
          /\ pkm.bad_egg_flag <=> RecordBit(bytes, \H04, 1)
          /\ pkm.is_egg <=> RecordBit(bytes, \H3B, 6)
          /\ pkm.is_nicknamed <=> RecordBit(bytes, \H3B, 7)

\* C25, the part the code keeps: bad_egg_flag and is_nicknamed are decoded
\* from their bits, and serialize writes the four flags to theirs
C25_BadEggAndNicknamedDecode ==
    /\ (op = "deserialize" /\ result = "ok") =>
          /\ pkm.bad_egg_flag <=> RecordBit(bytes, \H04, 1)
          /\ pkm.is_nicknamed <=> RecordBit(bytes, \H3B, 7)
    /\ (op = "serialize" /\ result = "ok") =>
          /\ pkm.encryption_bypass <=> RecordBit(bytes, \H04, 0)
          /\ pkm.bad_egg_flag <=> RecordBit(bytes, \H04, 1)
          /\ pkm.is_egg <=> RecordBit(bytes, \H3B, 6)
          /\ pkm.is_nicknamed <=> RecordBit(bytes, \H3B, 7)

\* C25: a record with bit 6 of byte 0x3B set and bit 0 of byte 0x04 clear
\* has been decoded as no egg and with the bypass flag, which the bad-egg
\* bit gave it
C25_EggBitIgnored ==
    /\ op = "deserialize"
    /\ result = "ok"
    /\ RecordBit(bytes, \H3B, 6)
    /\ ~pkm.is_egg
    /\ ~RecordBit(bytes, \H04, 0)
    /\ RecordBit(bytes, \H04, 1)
    /\ pkm.encryption_bypass


(***************************************************************************)
(* C26: the generation of the locations of a deserialized Pokemon.          *)
(***************************************************************************)
\* the generation the locations of p are to have
LocationGeneration(p) == IF p.is_gen5 THEN 5 ELSE 4

\* C26: in every Pokemon deserialize returns, egg_location and met_location
\* are Gen 5 locations when is_gen5 is true and Gen 4 locations otherwise,
\* whatever bytes 0x44..0x48 and 0x7E..0x82 hold
C26_LocationsOfTheGeneration ==
    (op = "deserialize" /\ result = "ok") =>
        /\ pkm.is_gen5 = RecordIsGen5(bytes)
        /\ pkm.egg_location.gen = LocationGeneration(pkm)
        /\ pkm.met_location.gen = LocationGeneration(pkm)

\* C26, for records whose Plat/HGSS slots 0x44..0x48 are zero when the record
\* is a Gen 5 one
C26_LocationsWhenPlatSlotsZero ==
    (/\ op = "deserialize"
     /\ result = "ok"
     /\ (RecordIsGen5(bytes) => (ReadU16(bytes, \H44) = 0 /\ ReadU16(bytes, \H46) = 0))) =>
        /\ pkm.is_gen5 = RecordIsGen5(bytes)
        /\ pkm.egg_location.gen = LocationGeneration(pkm)
        /\ pkm.met_location.gen = LocationGeneration(pkm)

\* C26: a Gen 5 record with 1 at 0x44 has been deserialized into a Gen 5
\* Pokemon whose egg location is a Gen 4 one
C26_Gen4LocationInGen5 ==
    /\ op = "deserialize"
    /\ result = "ok"
    /\ Len(bytes) = GEN5_PKM_LEN
    /\ ReadU16(bytes, \H44) = 1
    /\ pkm.is_gen5
    /\ pkm.egg_location = Gen4Loc(1)
    /\ pkm.met_location.gen = 5


(***************************************************************************)
(* Specification of the party stats of a boxed Pokemon (pokemon.rs,         *)
(* generate_stats, called by serialize when the stats block is absent).     *)
(***************************************************************************)
\* experience values: levels in the low range, the middle and the top
StatsExperiences == { U32(0, 1000), U32(1, 0), U32(30, 0) }

StatsIvs ==
    { Gen4Sample.ivs, [hp |-> 31, atk |-> 31, def |-> 31, spa |-> 31, spd |-> 31, spe |-> 31] }

\* boxed Pokemon of every model species, the PID set through set_pid and the
\* level through set_experience
BoxedPokemon ==
    { [set_experience(set_pid([(IF sp > LAST_GEN4_SPECIES THEN Gen5Sample ELSE Gen4Sample)
                                  EXCEPT !.species = sp, !.ivs = ivs], pid), xp)
          EXCEPT !.stats = None] :
        sp \in ModelSpecies, ivs \in StatsIvs, pid \in SamplePids, xp \in StatsExperiences }

InitStats ==
    /\ pkm \in BoxedPokemon
    /\ bytes = <<>>
    /\ op = "init"
    /\ arg = NoArg
    /\ result = "ok"
    /\ saved = None
    /\ debug_build \in BOOLEAN
    /\ steps = 0
    /\ InitEnv

\* bytes = pkm.serialize() of a boxed Pokemon; saved holds the stats
\* generate_stats has before it applies the nature
SerializeBoxed ==
    /\ op = "init"
    /\ pkm.stats = None
    /\ ~SerializeFails(pkm)
    /\ bytes' = serialize(pkm)
    /\ saved' = stats_before_nature(pkm)
    /\ op' = "serialize"
    /\ steps' = steps + 1
    /\ UNCHANGED <<pkm, arg, result, debug_build>>
    /\ UNCHANGED env

NextStats == SerializeBoxed

SpecStats == InitStats /\ [][NextStats]_vars


(***************************************************************************)
(* C27: the party stats derived for a boxed Pokemon.                        *)
(***************************************************************************)
\* the entries of the base-stats row [growth-class, HP, Atk, Def, SpA, SpD,
\* Spe] of a species
BaseStatsRow(species) ==
    LET row == BASE_STATS(species)
    IN  [growth |-> row[1], hp |-> row[2], atk |-> row[3], def |-> row[4],
         spa |-> row[5], spd |-> row[6], spe |-> row[7]]

\* HP = (IV + 2*base + EV/4) * L/100 + 10 and S = (IV + 2*base + EV)/4 * L/100 + 5
StatedStats(p) ==
    LET base == BaseStatsRow(p.species)
        other(s) == (((((p.ivs[s] + (2 * base[s]) + p.evs[s]) \div 4) * p.level) \div 100) + 5)
    IN  [hp  |-> ((((p.ivs.hp + (2 * base.hp) + (p.evs.hp \div 4)) * p.level) \div 100) + 10),
         atk |-> other("atk"), def |-> other("def"), spa |-> other("spa"),
         spd |-> other("spd"), spe |-> other("spe")]

\* the stats with the growth class in the place of the base HP, the base HP
\* in the place of the base Attack, and so on along the row
ShiftedStats(p) ==
    LET base == BaseStatsRow(p.species)
        other(s, b) == (((((p.ivs[s] + (2 * b) + p.evs[s]) \div 4) * p.level) \div 100) + 5)
    IN  [hp  |-> ((((p.ivs.hp + (2 * base.growth) + (p.evs.hp \div 4)) * p.level) \div 100) + 10),
         atk |-> other("atk", base.hp), def |-> other("def", base.atk),
         spa |-> other("spa", base.def), spd |-> other("spd", base.spa),
         spe |-> other("spe", base.spd)]

\* C27: when a boxed Pokemon is serialized, the stats before the nature
\* modifiers are HP = (IV.hp + 2*base.hp + EV.hp/4) * L/100 + 10 and S =
\* (IV.S + 2*base.S + EV.S)/4 * L/100 + 5 on the HP .. Spe entries of the
\* species' row, whose first entry is the growth class of level_from_xp, and
\* the HP written at 0x8E and 0x90 is that HP
C27_StatsFromBaseRow ==
    op = "serialize" =>
        /\ pkm.level = level_from_xp(pkm.species, pkm.experience)
        /\ saved = StatedStats(pkm)
        /\ ReadU16(bytes, \H8E) = StatedStats(pkm).hp
        /\ ReadU16(bytes, \H90) = StatedStats(pkm).hp

\* C27, what the code computes: the same formulas on the row's entries one
\* place to the left
C27_StatsFromShiftedRow ==
    op = "serialize" =>
        /\ pkm.level = level_from_xp(pkm.species, pkm.experience)
        /\ saved = ShiftedStats(pkm)
        /\ ReadU16(bytes, \H8E) = ShiftedStats(pkm).hp
        /\ ReadU16(bytes, \H90) = ShiftedStats(pkm).hp

\* C27: a boxed Pikachu (growth class 0, base HP 35) has been serialized with
\* an HP computed from the base 0
C27_HpFromGrowthClass ==
    /\ op = "serialize"
    /\ pkm.species = 25
    /\ pkm.level > 10
    /\ BaseStatsRow(25).growth = 0 /\ BaseStatsRow(25).hp = 35
    /\ ReadU16(bytes, \H90) = ((((pkm.ivs.hp + (pkm.evs.hp \div 4)) * pkm.level) \div 100) + 10)
    /\ ReadU16(bytes, \H90) # StatedStats(pkm).hp


(***************************************************************************)
(* Specification of the name decoders on raw fields (pokemon.rs,            *)
(* decode_name_gen4 / decode_name_gen5): the field of a received record     *)
(* need not come from the encoders.                                         *)
(***************************************************************************)
\* code units of a field before its end or terminator: none, letters of the
\* character map, a unit the map lacks, and an unpaired surrogate
FieldBodies ==
    { <<>>, <<\H012B>>, <<\H012B, \H0145>>, <<\H012B, \H0145, \H0121, \H01AB>>,
      <<\H0041>>, <<\H012B, \H0041>>, <<\HD800>>, <<\H012B, \HDC00>> }

\* what follows them: nothing, the terminator, zero padding
FieldTails == { <<>>, <<TERMINATOR>>, <<TERMINATOR, 0>>, <<0>>, <<TERMINATOR, \HD800>> }

NameFields == { BytesOf(body \o tail) : body \in FieldBodies, tail \in FieldTails }

\* the 16-bit code units of a field
FieldUnits(field) == <<>> \o WordsOf(field)

InitFields ==
    /\ pkm = NoPkm
    /\ bytes \in NameFields
    /\ op = "init"
    /\ arg = NoArg
    /\ result = Ok(<<>>)
    /\ saved = "none"
    /\ debug_build \in BOOLEAN
    /\ steps = 0
    /\ InitEnv

\* result = Pokemon::decode_name_gen4(&bytes)
DecodeFieldGen4 ==
    /\ op = "init"
    /\ op' = "decode_name_gen4"
    /\ result' = decode_name_gen4(bytes)
    /\ steps' = steps + 1
    /\ UNCHANGED <<pkm, bytes, arg, saved, debug_build>>
    /\ UNCHANGED env

\* result = Pokemon::decode_name_gen5(&bytes)
DecodeFieldGen5 ==
    /\ op = "init"
    /\ op' = "decode_name_gen5"
    /\ result' = decode_name_gen5(bytes)
    /\ steps' = steps + 1
    /\ UNCHANGED <<pkm, bytes, arg, saved, debug_build>>
    /\ UNCHANGED env

NextFields == DecodeFieldGen4 \/ DecodeFieldGen5

SpecFields == InitFields /\ [][NextFields]_vars


(***************************************************************************)
(* C28: the errors of the name decoders.                                    *)
(***************************************************************************)
\* the field holds no 0xFFFF code unit
LacksTerminator(field) ==
    \A i \in 1..Len(FieldUnits(field)) : FieldUnits(field)[i] # TERMINATOR

\* a code unit before the first terminator (or the end) is outside the
\* character map
HasUnmappedUnit(field) ==
    \E i \in 1..Len(FieldUnits(field)) :
        /\ \A j \in 1..i : FieldUnits(field)[j] # TERMINATOR
        /\ CharmapByLeft(FieldUnits(field)[i]) = -1

\* the units are no valid UTF-16: a surrogate without its pair
HasInvalidUtf16(field) ==
    LET units == FieldUnits(field)
    IN  \E i \in 1..Len(units) :
           \/ /\ units[i] \in \HD800..\HDBFF
              /\ (i = Len(units) \/ units[i + 1] \notin \HDC00..\HDFFF)
           \/ /\ units[i] \in \HDC00..\HDFFF
              /\ (i = 1 \/ units[i - 1] \notin \HD800..\HDBFF)

\* C28: decoding a field without a 0xFFFF terminator fails with an error in
\* the Gen 4 and in the Gen 5 decoder, as does a Gen 4 code unit outside the
\* character map and an invalid UTF-16 sequence in Gen 5
C28_DecodersReject ==
    /\ (op = "decode_name_gen4" /\ (LacksTerminator(bytes) \/ HasUnmappedUnit(bytes)))
          => ~result.ok
    /\ (op = "decode_name_gen5" /\ (LacksTerminator(bytes) \/ HasInvalidUtf16(bytes)))
          => ~result.ok

\* C28, the part the code keeps: the Gen 5 decoder rejects a field without
\* terminator and invalid UTF-16, the Gen 4 decoder a unit outside the map
C28_RejectsApartFromGen4Terminator ==
    /\ (op = "decode_name_gen4" /\ HasUnmappedUnit(bytes)) => ~result.ok
    /\ (op = "decode_name_gen5" /\ (LacksTerminator(bytes) \/ HasInvalidUtf16(bytes)))
          => ~result.ok

\* C28: the Gen 4 decoder has returned "Aa" for the field 2B 01 45 01, which
\* has no terminator
C28_Gen4AcceptsUnterminated ==
    /\ op = "decode_name_gen4"
    /\ bytes = <<\H2B, \H01, \H45, \H01>>
    /\ LacksTerminator(bytes)
    /\ result = Ok(<<65, 97>>)


(***************************************************************************)
(* Specification of set_name (pokemon.rs): names are set one after another  *)
(* on a Pokemon.                                                            *)
(***************************************************************************)
MAX_NAME_LEN == 10

\* the number of bytes of a character in UTF-8
Utf8Len(c) == IF c < 128 THEN 1 ELSE IF c < 2048 THEN 2 ELSE IF c < U16 THEN 3 ELSE 4

\* String::len(): the number of bytes of the UTF-8 representation
RECURSIVE StringLen(_)
StringLen(name) == IF name = <<>> THEN 0 ELSE Utf8Len(Head(name)) + StringLen(Tail(name))

\* set_name(&mut self, name): what is returned and the Pokemon afterwards
set_name(p, name) ==
    IF StringLen(name) > MAX_NAME_LEN THEN [returned |-> "err", pkm |-> p]
    ELSE IF ~encode_name_gen4(name).ok THEN [returned |-> "err", pkm |-> p]
    ELSE [returned |-> "ok", pkm |-> [p EXCEPT !.name = name]]

\* the names passed: none, "Pika", ten and eleven letters, one and six
\* accented capitals (two bytes each in UTF-8), a character the map lacks
\* alone and after letters
SetNameNames ==
    { <<>>, <<80, 105, 107, 97>>,
      <<65, 66, 67, 68, 69, 70, 71, 72, 73, 74>>,
      <<65, 66, 67, 68, 69, 70, 71, 72, 73, 74, 75>>,
      <<201>>, <<201, 201, 201, 201, 201, 201>>,
      <<128512>>, <<65, 66, 128512>> }

MaxNameCalls == 2

InitSetName ==
    /\ pkm \in { Gen4Sample, Gen5Sample }
    /\ bytes = <<>>
    /\ op = "init"
    /\ arg = <<>>
    /\ result = "ok"
    /\ saved = pkm
    /\ debug_build \in BOOLEAN
    /\ steps = 0
    /\ InitEnv

\* result = pkm.set_name(name); saved is the Pokemon before the call
SetName ==
    /\ steps < MaxNameCalls
    /\ \E name \in SetNameNames :
          LET r == set_name(pkm, name)
          IN  /\ arg' = name
              /\ result' = r.returned
              /\ pkm' = r.pkm
    /\ saved' = pkm
    /\ op' = "set_name"
    /\ steps' = steps + 1
    /\ UNCHANGED <<bytes, debug_build>>
    /\ UNCHANGED env

NextSetName == SetName

SpecSetName == InitSetName /\ [][NextSetName]_vars


(***************************************************************************)
(* C29: which names set_name accepts.                                       *)
(***************************************************************************)
\* every character of the name is in the character map
EveryCharacterEncodable(name) == \A i \in 1..Len(name) : CharmapByRight(name[i]) # -1

\* what the call has done for a name that is acceptable or not
SetNameOutcome(acceptable) ==
    IF acceptable THEN result = "ok" /\ pkm = [saved EXCEPT !.name = arg]
    ELSE result = "err" /\ pkm = saved

\* C29: set_name(n) succeeds and stores n exactly when n has at most 10
\* characters, each encodable; otherwise it returns an error and leaves the
\* Pokemon unchanged.  The limit counts characters, not UTF-8 bytes
C29_SetNameCountsCharacters ==
    op = "set_name" => SetNameOutcome(Len(arg) <= MAX_NAME_LEN /\ EveryCharacterEncodable(arg))

\* C29, with the limit the code applies: at most 10 bytes of UTF-8
C29_SetNameCountsBytes ==
    op = "set_name" =>
        SetNameOutcome(StringLen(arg) <= MAX_NAME_LEN /\ EveryCharacterEncodable(arg))

\* C29: a name of six encodable characters and twelve bytes has been
\* refused, the Pokemon left as it was
C29_SixCharactersRefused ==
    /\ op = "set_name"
    /\ arg = <<201, 201, 201, 201, 201, 201>>
    /\ EveryCharacterEncodable(arg)
    /\ StringLen(arg) = 12
    /\ result = "err"
    /\ pkm = saved


(***************************************************************************)
(* The DNS proxy (dns_server.rs).  A message is its ID and its sections of  *)
(* records; a record is its name, type, time to live and data.  A client    *)
(* request is relayed to the real DNS server, whose responses come as a     *)
(* stream of items: responses and errors.                                   *)
(***************************************************************************)
GTS_SERVER_NAME == "gamestats2.gs.nintendowifi.net."

\* the local address get_proxy_ip found
PROXY_IP == "192.168.0.2"

DnsRecord(name, type, data) == [name |-> name, type |-> type, ttl |-> 300, data |-> data]

GtsA == DnsRecord(GTS_SERVER_NAME, "A", "203.0.113.7")
OtherA == DnsRecord("conntest.nintendowifi.net.", "A", "198.51.100.1")
GtsAAAA == DnsRecord(GTS_SERVER_NAME, "AAAA", "2001:db8::7")
GtsCname == DnsRecord(GTS_SERVER_NAME, "CNAME", "gts.example.net.")
GtsNs == DnsRecord("nintendowifi.net.", "NS", GTS_SERVER_NAME)

\* the ID the client of the real DNS server gave the relayed query
UPSTREAM_ID == 4660

DnsResponse(answers, name_servers, additionals) ==
    [err |-> FALSE, id |-> UPSTREAM_ID, answers |-> answers, name_servers |-> name_servers,
     additionals |-> additionals]

DnsError == [err |-> TRUE]

\* responses of the real server: answers with and without records of the GTS
\* server, alone or with authority and additional records
UpstreamResponses ==
    { DnsResponse(answers, <<>>, <<>>) :
        answers \in { <<>>, <<GtsA>>, <<OtherA>>, <<GtsCname, OtherA>>, <<GtsA, GtsAAAA>>,
                      <<OtherA, GtsA>> } }
        \cup { DnsResponse(<<GtsNs>>, <<GtsNs>>, additionals) :
                 additionals \in { <<GtsA>>, <<OtherA>> } }

\* what one exchange with the real server yields: nothing, one item, or a
\* response followed by another item
UpstreamStreams ==
    { <<>>, <<DnsError>> } \cup { <<r>> : r \in UpstreamResponses }
        \cup { <<r, x>> : r \in { DnsResponse(<<GtsA>>, <<>>, <<>>) },
                          x \in { DnsError, DnsResponse(<<OtherA>>, <<>>, <<>>) } }

DnsClients == { "ds-1", "ds-2" }

\* A datagram, as far as the proxy looks at it: the two bytes of the message
\* ID and one cell for the rest of the message (1: a message with a query,
\* 0: a message without one, 2: bytes that are no DNS message).  A datagram
\* may be shorter than that, and empty.
DNS_WITH_QUERY == 1

DnsQuery(id) == <<id \div 256, id % 256, DNS_WITH_QUERY>>

DnsRequestIds == { 1, U16 - 1 }

ClientDatagrams ==
    { DnsQuery(id) : id \in DnsRequestIds } \cup { <<0, 1, 0>>, <<0, 1, 2>>, <<9>>, <<>> }

\* let mut listening_buf = [0u8; 512]
ZEROED_BUF == <<0, 0, 0>>

\* recv_from(&mut listening_buf): the datagram is written over the start of
\* the buffer, the bytes after it stay
RecvFrom(buf, datagram) ==
    [i \in 1..Len(buf) |-> IF i <= Len(datagram) THEN datagram[i] ELSE buf[i]]

\* Message::from_vec(&listening_buf) and dns_msg.query() on the whole buffer
HasQuery(buf) == buf[3] = DNS_WITH_QUERY

\* dns_msg.id()
MessageId(buf) == (buf[1] * 256) + buf[2]

\* the one record as modify_response leaves it
ModifiedAnswer(answer, proxy_ip) ==
    IF answer.type = "A" /\ answer.name = GTS_SERVER_NAME
    THEN [answer EXCEPT !.data = proxy_ip]
    ELSE answer

\* modify_response(response, id)
modify_response(response, id, proxy_ip) ==
    [response EXCEPT !.id = id,
                     !.answers = [i \in 1..Len(response.answers) |->
                                     ModifiedAnswer(response.answers[i], proxy_ip)]]

(***************************************************************************)
(* Specification of DNSServer::run: op is where the loop stands ("recv":    *)
(* at recv_from, "exchange": at exchange.next(), "stopped": run returned),  *)
(* arg the request being served, saved the items the exchange has still to  *)
(* yield, result what the last step did, and bytes the datagram it sent     *)
(* with the response it was made from.                                      *)
(***************************************************************************)
MaxDnsSteps == 4

NoDnsRequest ==
    [client |-> "none", datagram |-> <<>>, listening_buf |-> ZEROED_BUF, id |-> 0, sends |-> 0]

InitDns ==
    /\ pkm = NoPkm
    /\ bytes = <<>>
    /\ op = "recv"
    /\ arg = NoDnsRequest
    /\ result = "started"
    /\ saved = <<>>
    /\ debug_build \in BOOLEAN
    /\ steps = 0
    /\ InitEnv

\* recv_from returns a datagram and the buffer parses as a message with a
\* query: the message is sent to the real server
RecvQuery ==
    /\ op = "recv"
    /\ steps < MaxDnsSteps
    /\ \E client \in DnsClients, datagram \in ClientDatagrams, stream \in UpstreamStreams :
          LET buf == RecvFrom(arg.listening_buf, datagram)
          IN  /\ HasQuery(buf)
              /\ arg' = [client |-> client, datagram |-> datagram, listening_buf |-> buf,
                         id |-> MessageId(buf), sends |-> 1]
              /\ saved' = stream
    /\ op' = "exchange"
    /\ result' = "relayed"
    /\ bytes' = <<>>
    /\ steps' = steps + 1
    /\ UNCHANGED <<pkm, debug_build>>
    /\ UNCHANGED env

\* recv_from returns a datagram and the buffer is no DNS message or has no
\* query: the loop goes on to the next datagram
RecvIgnored ==
    /\ op = "recv"
    /\ steps < MaxDnsSteps
    /\ \E client \in DnsClients, datagram \in ClientDatagrams :
          LET buf == RecvFrom(arg.listening_buf, datagram)
          IN  /\ ~HasQuery(buf)
              /\ arg' = [client |-> client, datagram |-> datagram, listening_buf |-> buf,
                         id |-> 0, sends |-> 0]
    /\ result' = "ignored"
    /\ bytes' = <<>>
    /\ steps' = steps + 1
    /\ UNCHANGED <<pkm, op, saved, debug_build>>
    /\ UNCHANGED env

\* the exchange yields a response: it is modified and sent to the client
ExchangeResponse ==
    /\ op = "exchange"
    /\ saved # <<>>
    /\ ~Head(saved).err
    /\ bytes' = <<[to |-> arg.client, msg |-> modify_response(Head(saved), arg.id, PROXY_IP),
                   upstream |-> Head(saved)]>>
    /\ saved' = Tail(saved)
    /\ result' = "sent"
    /\ steps' = steps + 1
    /\ UNCHANGED <<pkm, op, arg, debug_build>>
    /\ UNCHANGED env

\* the exchange yields an error: the query is sent again
ExchangeError ==
    /\ op = "exchange"
    /\ saved # <<>>
    /\ Head(saved).err
    /\ steps < MaxDnsSteps
    /\ \E stream \in UpstreamStreams : saved' = stream
    /\ arg' = [arg EXCEPT !.sends = @ + 1]
    /\ result' = "retry"
    /\ bytes' = <<>>
    /\ steps' = steps + 1
    /\ UNCHANGED <<pkm, op, debug_build>>
    /\ UNCHANGED env

\* the exchange has ended: the loop waits for the next datagram
ExchangeEnd ==
    /\ op = "exchange"
    /\ saved = <<>>
    /\ op' = "recv"
    /\ result' = "served"
    /\ bytes' = <<>>
    /\ steps' = steps + 1
    /\ UNCHANGED <<pkm, arg, saved, debug_build>>
    /\ UNCHANGED env

\* recv_from, to_vec or send_to fails: run returns the error
SocketFails ==
    /\ op \in {"recv", "exchange"}
    /\ (op = "exchange" => (saved # <<>> /\ ~Head(saved).err))
    /\ op' = "stopped"
    /\ result' = "err"
    /\ bytes' = <<>>
    /\ steps' = steps + 1
    /\ UNCHANGED <<pkm, arg, saved, debug_build>>
    /\ UNCHANGED env

NextDns ==
    RecvQuery \/ RecvIgnored \/ ExchangeResponse \/ ExchangeError \/ ExchangeEnd \/ SocketFails

SpecDns == InitDns /\ [][NextDns]_vars


(***************************************************************************)
(* C30: what the proxy sends to a client.                                   *)
(***************************************************************************)
\* the record as the claim has it forwarded
ForwardedRecord(record) ==
    IF record.type = "A" /\ record.name = GTS_SERVER_NAME
    THEN [record EXCEPT !.data = PROXY_IP]
    ELSE record

ForwardedSection(records) == [i \in 1..Len(records) |-> ForwardedRecord(records[i])]

\* the datagram is a request with a message ID: a message with a query
IsRequest(datagram) == Len(datagram) = Len(ZEROED_BUF) /\ datagram[3] = DNS_WITH_QUERY

\* C30: every datagram sent to a client is an upstream response with the ID
\* of that client's request, in which exactly the A records named
\* gamestats2.gs.nintendowifi.net. carry the proxy's address and all other
\* records and fields are unchanged; an upstream error makes the proxy send
\* the query again and no answer
C30_ForgedResponse ==
    /\ result = "sent" =>
          /\ bytes[1].to = arg.client
          /\ IsRequest(arg.datagram)
          /\ bytes[1].msg.id = MessageId(arg.datagram)
          /\ ~bytes[1].upstream.err
          /\ bytes[1].msg.answers = ForwardedSection(bytes[1].upstream.answers)
          /\ bytes[1].msg.name_servers = ForwardedSection(bytes[1].upstream.name_servers)
          /\ bytes[1].msg.additionals = ForwardedSection(bytes[1].upstream.additionals)
    /\ result = "retry" => (bytes = <<>> /\ arg.sends > 1 /\ op = "exchange")

\* C30, what the code keeps: the datagram goes to the sender of the last
\* datagram with the ID the buffer held; when that datagram was a request,
\* the ID is its ID; the A records of the GTS server in the answer section
\* carry the proxy's address; the authority and additional sections are
\* forwarded as they came; an error makes the proxy send the query again
C30_ForgedAnswers ==
    /\ result = "sent" =>
          /\ bytes[1].to = arg.client
          /\ bytes[1].msg.id = MessageId(arg.listening_buf)
          /\ IsRequest(arg.datagram) => bytes[1].msg.id = MessageId(arg.datagram)
          /\ ~bytes[1].upstream.err
          /\ bytes[1].msg.answers = ForwardedSection(bytes[1].upstream.answers)
          /\ bytes[1].msg.name_servers = bytes[1].upstream.name_servers
          /\ bytes[1].msg.additionals = bytes[1].upstream.additionals
    /\ result = "retry" => (bytes = <<>> /\ arg.sends > 1 /\ op = "exchange")

\* C30: a response has been sent whose additional section has the A record
\* of the GTS server with the address the real server gave
C30_AdditionalRecordForwarded ==
    /\ result = "sent"
    /\ IsRequest(arg.datagram)
    /\ bytes[1].msg.id = MessageId(arg.datagram)
    /\ bytes[1].msg.additionals = <<GtsA>>
    /\ GtsA.data # PROXY_IP

\* C30: a client that sent an empty datagram has been sent a response with
\* the ID of the request the buffer still held
C30_AnswerToEmptyDatagram ==
    /\ result = "sent"
    /\ arg.datagram = <<>>
    /\ bytes[1].to = arg.client
    /\ bytes[1].msg.id = U16 - 1

\* C30: the answer of the GTS server has been sent with the proxy's address
\* after an error had made the proxy send the query again
C30_ForgedAfterRetry ==
    /\ result = "sent"
    /\ arg.sends = 2
    /\ IsRequest(arg.datagram)
    /\ bytes[1].upstream.answers = <<GtsA>>
    /\ bytes[1].msg.answers = <<[GtsA EXCEPT !.data = PROXY_IP]>>
    /\ bytes[1].msg.id = MessageId(arg.datagram)
    /\ bytes[1].msg.id # UPSTREAM_ID

====
